---- MODULE Spec2Model ----
(***************************************************************************)
(* Verification model of gmhelper's frame-to-asset pipeline:               *)
(*   - calculate_tight_bbox        (src/src/sprites/bbox.rs)               *)
(*   - split_spritesheet, create_gif, find_nearest_color (src/src/main.rs) *)
(*   - import_sprite_to_project and its helpers, strip_trailing_commas     *)
(*                                 (src/src/sprites/gm_import.rs)          *)
(*   - export_as_game_music, trim_wav (src/crates/ost_export/src)          *)
(* Each part has its own specification (SpecBBox, SpecGif, SpecNearest,    *)
(* SpecFolders, SpecImport, SpecStrip, SpecSplit, SpecOst); the variables  *)
(* of the other parts stay at their idle value.                            *)
(***************************************************************************)
EXTENDS Integers, Sequences, FiniteSets, TLC

VARIABLES
    \* the frame stack given to calculate_tight_bbox, create_gif or the imports
    frames,          \* sequence of frames; a frame is [w, h, px], px the raster-order RGBA pixels
    width, height,   \* the declared frame dimensions passed by the caller
    \* calculate_tight_bbox
    bpc,             \* "idle" | "call" | "returned" | "panicked"
    bbox,            \* the returned Option<BBox>: None or [left, top, right, bottom]
    \* create_gif
    gpc,             \* "idle" | "collect" | "truncate" | "encode" | "done"
    color_list,      \* Vec<[u8;3]>, entry 0 the transparent marker
    color_map,       \* HashMap<[u8;3], usize>
    palette,         \* Vec<u8>, the flattened RGB palette handed to the encoder
    collected,       \* color_list as it was when the first pass ended (before truncation)
    written,         \* the frames written so far: [indexed, transparent, nearest]
    \* find_nearest_color applied on its own
    npc, ncolor, npalette, nret,
    \* import_sprite_to_project and ensure_gm_folders_value
    ipc,             \* "idle" | "folders" | "import" | "panicked"
    project,         \* the .yyp file: None when unparsable, else Some([Folders, resources])
    sprites,         \* the sprites/ directory: name -> None or Some(the sprite's directory)
    next_guid,       \* the number of identifiers generated so far
    calls,           \* the number of calls made so far
    upserted,        \* the names imported successfully so far
    disk,            \* the filesystem operation that fails on this disk, or "none"
    last,            \* the last call: its arguments, its result and what it found
    \* strip_trailing_commas
    spc,             \* "idle" | "call" | "returned"
    json, result,    \* the text given and the text returned
    \* split_spritesheet
    tpc,             \* "idle" | "call" | "returned"
    sheet,           \* the spritesheet image [w, h, px]
    info,            \* SpriteExportInfo: [width, height, frame_count]
    output,          \* the file written: None, or Some of a "png" or a "gif"
    \* export_as_game_music
    opc,             \* "idle" | "call" | "returned"
    options,         \* the samples to trim: [skip_start, skip_end]
    music_folder,    \* None, or Some(file name -> samples) for the music folder
    game_music,      \* None, or Some(file name -> samples) for its GameMusic folder
    oret,            \* "Ok" | "Err"
    \* trim_wav applied on its own
    wpc,             \* "idle" | "call" | "returned"
    wav_in,          \* the input file: None when unreadable, else Some([spec, samples])
    trim,            \* the samples to drop: [skip_start, skip_end]
    wav_out,         \* [ret, file]: the result and the output file (None when not created)
    \* the watcher's channel and the event loop of main
    channel,         \* the events sent by the watcher and not yet received
    sent,            \* the number of events sent so far
    mpc,             \* the loop's position: "recv" | "path" | "export" | "split"
    event,           \* the event in hand: [ev, p, infos, errors], << >> when none
    runs,            \* the ids of the events whose handling has begun and not ended
    handled          \* the handlings that ended, in order: [id, errors]

inputVars == <<frames, width, height>>
bboxVars == <<bpc, bbox>>
gifVars == <<gpc, color_list, color_map, palette, collected, written>>
nearVars == <<npc, ncolor, npalette, nret>>
importVars == <<ipc, project, sprites, next_guid, calls, upserted, disk, last>>
stripVars == <<spc, json, result>>
splitVars == <<tpc, sheet, info, output>>
ostVars == <<opc, options, music_folder, game_music, oret>>
trimVars == <<wpc, wav_in, trim, wav_out>>
watchVars == <<channel, sent, mpc, event, runs, handled>>
lateVars == <<trimVars, watchVars>>
toolVars == <<stripVars, splitVars, ostVars, lateVars>>

vars == <<inputVars, bboxVars, gifVars, nearVars, importVars, toolVars>>

\* Option<T>: None is the empty sequence, Some(x) the one-element sequence
None == << >>
Some(x) == <<x>>
IsSome(o) == Len(o) = 1
Unwrap(o) == o[1]

RECURSIVE KSubsets(_, _)
\* the subsets of S with at most k elements
KSubsets(S, k) ==
    IF k = 0 THEN {{}}
    ELSE LET P == KSubsets(S, k - 1) IN P \cup {p \cup {e} : p \in P, e \in S}

(***************************************************************************)
(* Frames                                                                  *)
(***************************************************************************)
\* an RGBA pixel is <<r, g, b, a>>
Transparent == <<0, 0, 0, 0>>

\* frame.to_rgba8().as_raw(), the four bytes of a pixel kept together
Raw(frame) == frame.px

(***************************************************************************)
(* calculate_tight_bbox                                                    *)
(***************************************************************************)
MaxDim == 3
MaxFrames == 2
MaxOccupied == 2

\* bbox.rs 28-43 with an else-if slip: a pixel that lowers a minimum does not raise a maximum
NotePixelElse(acc, x, y, alpha) ==
    IF alpha > 0
    THEN [acc EXCEPT
            !.min_x = IF x < @ THEN x ELSE @,
            !.min_y = IF y < @ THEN y ELSE @,
            !.max_x = IF x < acc.min_x THEN @ ELSE IF x > @ THEN x ELSE @,
            !.max_y = IF y < acc.min_y THEN @ ELSE IF y > @ THEN y ELSE @]
    ELSE acc

\* bbox.rs 28-43: the running min/max update for one pixel
NotePixel(acc, x, y, alpha) ==
    IF alpha > 0
    THEN [acc EXCEPT
            !.min_x = IF x < @ THEN x ELSE @,
            !.min_y = IF y < @ THEN y ELSE @,
            !.max_x = IF x > @ THEN x ELSE @,
            !.max_y = IF y > @ THEN y ELSE @]
    ELSE acc

RECURSIVE ScanFrame(_, _, _, _, _)
\* bbox.rs 24-45: for y in 0..height, for x in 0..width; k = y * width + x.
\* pixels[idx + 3] panics when the buffer is shorter than the declared size.
ScanFrame(pixels, w, h, k, acc) ==
    IF acc.panic \/ k >= w * h THEN acc
    ELSE IF k + 1 > Len(pixels) THEN [acc EXCEPT !.panic = TRUE]
    ELSE ScanFrame(pixels, w, h, k + 1, NotePixel(acc, k % w, k \div w, pixels[k + 1][4]))

RECURSIVE ScanFrames(_, _, _, _, _)
\* bbox.rs 20-46: the loop over the frames, one accumulator for the whole stack
ScanFrames(fs, w, h, i, acc) ==
    IF acc.panic \/ i > Len(fs) THEN acc
    ELSE ScanFrames(fs, w, h, i + 1, ScanFrame(Raw(fs[i]), w, h, 0, acc))

\* bbox.rs 48-50 with the test written max_x <= 0
BBoxOfZero(acc) ==
    IF acc.max_x <= 0 THEN None
    ELSE Some([left |-> acc.min_x, top |-> acc.min_y,
               right |-> acc.max_x, bottom |-> acc.max_y])

\* bbox.rs 48-57
BBoxOf(acc) ==
    IF acc.max_x < 0 THEN None
    ELSE Some([left |-> acc.min_x, top |-> acc.min_y,
               right |-> acc.max_x, bottom |-> acc.max_y])

\* bbox.rs 14-58: [panic, value]; panic when a pixel index is out of range
calculate_tight_bbox(fs, w, h) ==
    LET acc == ScanFrames(fs, w, h, 1,
                   [min_x |-> w, min_y |-> h, max_x |-> -1, max_y |-> -1, panic |-> FALSE])
    IN IF acc.panic THEN [panic |-> TRUE, value |-> None]
       ELSE [panic |-> FALSE, value |-> BBoxOf(acc)]

\* a frame of aw x ah pixels whose occupied cells (alpha a) are occ, a set of <<x, y>>
MkFrame(aw, ah, occ, a) ==
    [w |-> aw, h |-> ah,
     px |-> [k \in 1..(aw * ah) |->
               IF <<(k - 1) % aw, (k - 1) \div aw>> \in occ
               THEN <<255, 0, 0, a>> ELSE Transparent]]

\* the frame stacks the bounding box is computed for: n frames of aw x ah pixels with
\* at most MaxOccupied occupied pixels in all, each occupied pixel of alpha a
Stacks(n, aw, ah, a) ==
    LET Cells == (1..n) \X (0..(aw - 1)) \X (0..(ah - 1))
    IN {[i \in 1..n |-> MkFrame(aw, ah, {<<c[2], c[3]>> : c \in {d \in occ : d[1] = i}}, a)] :
          occ \in KSubsets(Cells, MaxOccupied)}

IdleBBox == bpc = "idle" /\ bbox = None
IdleInputs == frames = << >> /\ width = 0 /\ height = 0
IdleGif ==
    /\ gpc = "idle" /\ color_list = << >> /\ color_map = << >> /\ palette = << >>
    /\ collected = << >> /\ written = << >>
IdleNearest == npc = "idle" /\ ncolor = << >> /\ npalette = << >> /\ nret = 0
IdleImport ==
    /\ ipc = "idle" /\ project = << >> /\ sprites = << >> /\ next_guid = 0
    /\ calls = 0 /\ upserted = {} /\ disk = "none" /\ last = << >>
IdleStrip == spc = "idle" /\ json = << >> /\ result = << >>
IdleSplit == tpc = "idle" /\ sheet = << >> /\ info = << >> /\ output = << >>
IdleOst ==
    /\ opc = "idle" /\ options = << >> /\ music_folder = << >> /\ game_music = << >>
    /\ oret = ""
IdleTrim == wpc = "idle" /\ wav_in = << >> /\ trim = << >> /\ wav_out = << >>
IdleWatch ==
    /\ channel = << >> /\ sent = 0 /\ mpc = "idle" /\ event = << >> /\ runs = {}
    /\ handled = << >>
IdleLate == IdleTrim /\ IdleWatch
IdleTools == IdleStrip /\ IdleSplit /\ IdleOst /\ IdleLate

\* The caller declares width x height; the frames are that size, or one row short
\* (the declared size is not checked against the frames', bbox.rs 14 and 26).
InitBBox ==
    /\ \E w \in 1..MaxDim, h \in 1..MaxDim, n \in 0..MaxFrames,
          short \in BOOLEAN, a \in {1, 255} :
         /\ width = w /\ height = h
         /\ frames \in Stacks(n, w, IF short THEN h - 1 ELSE h, a)
    /\ bpc = "call" /\ bbox = None
    /\ IdleGif /\ IdleNearest /\ IdleImport /\ IdleTools

\* bbox.rs 14-58, the call returns
BBoxReturn ==
    /\ bpc = "call"
    /\ LET r == calculate_tight_bbox(frames, width, height)
       IN /\ ~r.panic
          /\ bbox' = r.value
    /\ bpc' = "returned"
    /\ UNCHANGED <<toolVars, inputVars, gifVars, nearVars, importVars>>

\* bbox.rs 27, the index is out of range and the thread panics
BBoxPanic ==
    /\ bpc = "call"
    /\ calculate_tight_bbox(frames, width, height).panic
    /\ bpc' = "panicked"
    /\ UNCHANGED <<toolVars, inputVars, bbox, gifVars, nearVars, importVars>>

NextBBox == BBoxReturn \/ BBoxPanic

SpecBBox == InitBBox /\ [][NextBBox]_vars

\* every frame has the declared size
SizesAgree == \A i \in 1..Len(frames) : frames[i].w = width /\ frames[i].h = height

\* the coordinates <<x, y>> of the pixels with alpha > 0 in some frame
OccupiedCells ==
    {c \in (0..(width - 1)) \X (0..(height - 1)) :
        \E i \in 1..Len(frames) : frames[i].px[c[2] * width + c[1] + 1][4] > 0}

\* C1: for a stack of width x height frames with an occupied pixel, the returned box
\* contains every occupied pixel of every frame and each of its four edges touches one.
C1_TightBBox ==
    (bpc = "returned" /\ SizesAgree /\ OccupiedCells # {}) =>
        /\ IsSome(bbox)
        /\ LET b == Unwrap(bbox)
           IN /\ \A c \in OccupiedCells :
                    b.left <= c[1] /\ c[1] <= b.right /\ b.top <= c[2] /\ c[2] <= b.bottom
              /\ \E c \in OccupiedCells : c[1] = b.left
              /\ \E c \in OccupiedCells : c[1] = b.right
              /\ \E c \in OccupiedCells : c[2] = b.top
              /\ \E c \in OccupiedCells : c[2] = b.bottom

\* two frames, each with its own occupied pixel, and a box wider than either pixel
C1_Witness ==
    /\ bpc = "returned" /\ SizesAgree /\ Len(frames) = 2 /\ IsSome(bbox)
    /\ \A i \in 1..2 : \E k \in 1..Len(frames[i].px) : frames[i].px[k][4] > 0
    /\ Unwrap(bbox).left < Unwrap(bbox).right
    /\ Unwrap(bbox).top < Unwrap(bbox).bottom

\* C2: the result is None exactly when no pixel of any frame has alpha > 0 (an empty
\* frame list included), and a returned box has left <= right and top <= bottom.
C2_EmptyIff ==
    (bpc = "returned" /\ SizesAgree) =>
        /\ (bbox = None) <=> (OccupiedCells = {})
        /\ IsSome(bbox) => /\ Unwrap(bbox).left <= Unwrap(bbox).right
                           /\ Unwrap(bbox).top <= Unwrap(bbox).bottom

\* a stack of two all-transparent frames returned None
C2_Witness ==
    /\ bpc = "returned" /\ SizesAgree /\ Len(frames) = 2 /\ bbox = None
    /\ width * height > 1

(***************************************************************************)
(* create_gif and find_nearest_color                                       *)
(***************************************************************************)
MaxGifFrames == 2

\* main.rs 381: color_list.truncate(256)
MaxColors == 256
\* main.rs 379-380: the flattened palette is cut at 768 bytes
MaxPaletteBytes == 768
\* main.rs 304: best_dist starts at u32::MAX (4294967295). That is beyond the integers
\* TLC computes with, so the model starts it at the largest one TLC has; a distance is at
\* most 3 * 255 * 255 = 195075, far below either.
U32Max == 2147483647

\* main.rs 342
transparent_marker == <<0, 0, 0>>

\* entry i (counted from 0, as the code does) of a Vec
At(v, i) == v[i + 1]

Rgb(p) == <<p[1], p[2], p[3]>>

\* Vec::truncate(n): no effect when the vector is not longer than n
VecTruncate(v, n) == IF Len(v) > n THEN SubSeq(v, 1, n) ELSE v

\* main.rs 308-311 with the green difference left out
DistNoGreen(color, palette_color) ==
    LET dr == color[1] - palette_color[1]
        db == color[3] - palette_color[3]
    IN dr * dr + db * db

\* main.rs 308-311: squared Euclidean distance; it is at most 195075, so the i32
\* arithmetic does not overflow and the cast to u32 changes nothing
Dist(color, palette_color) ==
    LET dr == color[1] - palette_color[1]
        dg == color[2] - palette_color[2]
        db == color[3] - palette_color[3]
    IN dr * dr + dg * dg + db * db

\* main.rs 313 written with <=
CloserOrEqual(dist, best_dist) == dist <= best_dist

\* main.rs 313
Closer(dist, best_dist) == dist < best_dist

\* main.rs 308-316: one iteration of the search; best is [idx, dist]
NearestStep(color, pal, idx, best) ==
    LET dist == Dist(color, At(pal, idx))
    IN IF Closer(dist, best.dist) THEN [idx |-> idx, dist |-> dist] ELSE best

RECURSIVE NearestScan(_, _, _, _, _)
\* main.rs 306-317: palette.iter().enumerate().skip(1), the entries lo..hi visited in
\* index order (the range is halved, and the first half evaluated before the second
\* is entered, only to keep TLC's evaluation shallow)
NearestScan(color, pal, lo, hi, best) ==
    IF lo > hi THEN best
    ELSE IF lo = hi THEN NearestStep(color, pal, lo, best)
    ELSE LET mid == (lo + hi) \div 2
             left == NearestScan(color, pal, lo, mid, best)
         IN IF left.idx >= 0 THEN NearestScan(color, pal, mid + 1, hi, left) ELSE left

\* main.rs 297-320
find_nearest_color(color, pal) ==
    IF Len(pal) <= 1 THEN 0
    ELSE NearestScan(color, pal, 1, Len(pal) - 1, [idx |-> 1, dist |-> U32Max]).idx

\* main.rs 358-366: one pixel of the first pass; st is [list, map]
CollectPixel(st, p) ==
    IF p[4] > 0
    THEN LET color == Rgb(p)
         IN IF color # transparent_marker /\ color \notin DOMAIN st.map
            THEN [list |-> Append(st.list, color),
                  map |-> st.map @@ (color :> Len(st.list))]
            ELSE st
    ELSE st

RECURSIVE CollectPixels(_, _, _, _)
\* main.rs 352-367: pixels.chunks(4), the pixels lo..hi visited in order (the range is
\* halved, and the first half evaluated before the second is entered, only to keep
\* TLC's evaluation shallow)
CollectPixels(px, lo, hi, st) ==
    IF lo > hi THEN st
    ELSE IF lo = hi THEN CollectPixel(st, px[lo])
    ELSE LET mid == (lo + hi) \div 2
             left == CollectPixels(px, lo, mid, st)
         IN IF Len(left.list) >= 0 THEN CollectPixels(px, mid + 1, hi, left) ELSE left

RECURSIVE CollectFrames(_, _, _)
\* main.rs 349-368
CollectFrames(fs, i, st) ==
    IF i > Len(fs) THEN st
    ELSE CollectFrames(fs, i + 1, CollectPixels(Raw(fs[i]), 1, Len(Raw(fs[i])), st))

\* main.rs 371-376: the RGB triplets laid out flat
Flatten(list) ==
    [k \in 1..(3 * Len(list)) |-> list[((k - 1) \div 3) + 1][((k - 1) % 3) + 1]]

\* main.rs 384-386: insert (color, idx) in index order, a later insert replacing an earlier
Rebuild(list) ==
    [c \in {list[k] : k \in 1..Len(list)} |->
        (CHOOSE k \in 1..Len(list) :
            list[k] = c /\ \A j \in (k + 1)..Len(list) : list[j] # c) - 1]

\* main.rs 379-387 with the limit one entry too high
TruncateLate(st) ==
    IF Len(st.palette) > MaxPaletteBytes + 3
    THEN LET list == VecTruncate(st.list, MaxColors)
         IN [palette |-> VecTruncate(st.palette, MaxPaletteBytes),
             list |-> list, map |-> Rebuild(list)]
    ELSE st

\* main.rs 379-383 without the rebuild of color_map (384-386)
TruncateKeepMap(st) ==
    IF Len(st.palette) > MaxPaletteBytes
    THEN [palette |-> VecTruncate(st.palette, MaxPaletteBytes),
          list |-> VecTruncate(st.list, MaxColors), map |-> st.map]
    ELSE st

\* main.rs 379-387; st is [palette, list, map]
Truncate(st) ==
    IF Len(st.palette) > MaxPaletteBytes
    THEN LET list == VecTruncate(st.list, MaxColors)
         IN [palette |-> VecTruncate(st.palette, MaxPaletteBytes),
             list |-> list, map |-> Rebuild(list)]
    ELSE st

\* main.rs 415-427 with the marker colour, not the alpha, deciding what is transparent
EncodePixelByColor(p, list, map) ==
    IF Rgb(p) = transparent_marker
    THEN [index |-> 0, transparent |-> TRUE, searched |-> FALSE]
    ELSE LET color == Rgb(p)
         IN IF color \in DOMAIN map
            THEN [index |-> map[color] % 256, transparent |-> FALSE, searched |-> FALSE]
            ELSE [index |-> find_nearest_color(color, list) % 256,
                  transparent |-> FALSE, searched |-> TRUE]

\* main.rs 415-427: the index pushed for one pixel and whether the nearest-colour
\* search ran for it; palette_colors is color_list (main.rs 390)
EncodePixel(p, list, map) ==
    IF p[4] = 0
    THEN [index |-> 0, transparent |-> TRUE, searched |-> FALSE]
    ELSE LET color == Rgb(p)
         IN IF color \in DOMAIN map
            THEN [index |-> map[color] % 256, transparent |-> FALSE, searched |-> FALSE]
            ELSE [index |-> find_nearest_color(color, list) % 256,
                  transparent |-> FALSE, searched |-> TRUE]

\* main.rs 401-457: indexed_pixels and has_transparent of one frame, and the
\* transparency key of the gif::Frame (455-457; None as from_rgb leaves it)
EncodeFrame(frame, list, map) ==
    LET px == Raw(frame)
        e == [k \in 1..Len(px) |-> EncodePixel(px[k], list, map)]
        has_transparent == \E k \in 1..Len(px) : e[k].transparent
    IN [indexed |-> [k \in 1..Len(px) |-> e[k].index],
        has_transparent |-> has_transparent,
        transparent |-> IF has_transparent THEN Some(0) ELSE None,
        searched |-> [k \in 1..Len(px) |-> e[k].searched]]

\* main.rs 434-444: the RGB the encoder is given for palette index idx
PaletteRgb(pal, idx) ==
    IF idx * 3 + 2 < Len(pal)
    THEN <<pal[idx * 3 + 1], pal[idx * 3 + 2], pal[idx * 3 + 3]>>
    ELSE transparent_marker

\* n distinct opaque colours, none the marker, with even channels so that other
\* colours can lie midway between two of them
Ramp(n) == [k \in 1..n |-> <<2 * (k % 128), 2 * (k \div 128), 0, 255>>]

\* the pixel each frame ends with
Probes ==
    { Transparent, <<9, 9, 9, 0>>, <<0, 0, 0, 255>>, <<2, 0, 0, 255>>,
      <<1, 0, 0, 255>>, <<3, 0, 0, 1>>, <<1, 2, 0, 255>> }

\* how many ramp colours the frames start with: none, or as many as leave room for
\* one more colour, or as many as fill the palette
RampSizes == {0, MaxColors - 2, MaxColors - 1}

\* split_spritesheet calls create_gif with two frames or more (main.rs 250-253)
InitGif ==
    /\ \E n \in RampSizes, m \in 2..MaxGifFrames :
         /\ \E probe \in [1..m -> Probes] :
              frames = [i \in 1..m |->
                          [w |-> n + 1, h |-> 1, px |-> Append(Ramp(n), probe[i])]]
         /\ width = n + 1 /\ height = 1
    /\ gpc = "collect"
    /\ color_list = << >> /\ color_map = << >> /\ palette = << >>
    /\ collected = << >> /\ written = << >>
    /\ IdleBBox /\ IdleNearest /\ IdleImport /\ IdleTools

\* main.rs 342-376: the first pass and the flattened palette
GifCollect ==
    /\ gpc = "collect"
    /\ LET st == CollectFrames(frames, 1, [list |-> <<transparent_marker>>, map |-> << >>])
       IN /\ color_list' = st.list
          /\ color_map' = st.map
          /\ palette' = Flatten(st.list)
          /\ collected' = st.list
    /\ gpc' = "truncate"
    /\ UNCHANGED <<toolVars, inputVars, written, bboxVars, nearVars, importVars>>

\* main.rs 378-398: the 256-colour limit, then the encoder is created with the palette
GifTruncate ==
    /\ gpc = "truncate"
    /\ LET st == Truncate([palette |-> palette, list |-> color_list, map |-> color_map])
       IN /\ palette' = st.palette
          /\ color_list' = st.list
          /\ color_map' = st.map
    /\ gpc' = "encode"
    /\ UNCHANGED <<toolVars, inputVars, collected, written, bboxVars, nearVars, importVars>>

\* main.rs 401-462: one frame is indexed and written
GifWriteFrame ==
    /\ gpc = "encode"
    /\ Len(written) < Len(frames)
    /\ written' = Append(written, EncodeFrame(frames[Len(written) + 1], color_list, color_map))
    /\ UNCHANGED <<toolVars, inputVars, gpc, color_list, color_map, palette, collected, bboxVars,
                   nearVars, importVars>>

\* main.rs 464
GifDone ==
    /\ gpc = "encode"
    /\ Len(written) = Len(frames)
    /\ gpc' = "done"
    /\ UNCHANGED <<toolVars, inputVars, color_list, color_map, palette, collected, written,
                   bboxVars, nearVars, importVars>>

NextGif == GifCollect \/ GifTruncate \/ GifWriteFrame \/ GifDone

SpecGif == InitGif /\ [][NextGif]_vars

\* squared Euclidean distance between two RGB triples, for stating the claims
SqDist(c, d) ==
    (c[1] - d[1]) * (c[1] - d[1]) + (c[2] - d[2]) * (c[2] - d[2])
        + (c[3] - d[3]) * (c[3] - d[3])

\* the number of entries of the flattened palette, and its entry j (from 0)
PaletteEntries == Len(palette) \div 3
PaletteEntry(j) == <<palette[3 * j + 1], palette[3 * j + 2], palette[3 * j + 3]>>

\* the first pass found more colours than the palette holds
Overflowed == Len(collected) > MaxColors

\* the opaque pixels written so far, as <<frame, position>>
OpaqueWritten ==
    {q \in (1..Len(written)) \X (1..(width * height)) : frames[q[1]].px[q[2]][4] > 0}

\* C3: the palette create_gif encodes with has at most 256 entries, and entry 0 of the
\* palette is the marker RGB (0,0,0) both before and after the truncation step.
C3_PaletteBound ==
    /\ gpc \in {"encode", "done"} =>
          /\ Len(palette) <= 3 * 256
          /\ Len(palette) = 3 * Len(color_list)
          /\ PaletteEntries <= 256
    /\ gpc \in {"truncate", "encode", "done"} =>
          /\ PaletteEntries >= 1
          /\ PaletteEntry(0) = <<0, 0, 0>>
          /\ color_list[1] = <<0, 0, 0>>

\* the first pass found more than 256 entries and the palette was cut to 256
C3_Witness ==
    /\ gpc = "done" /\ Len(collected) > 256 /\ PaletteEntries = 256
    /\ PaletteEntry(0) = <<0, 0, 0>>

\* C4: for every pixel with alpha > 0, the palette entry at its encoded index is its
\* own RGB, or is a surviving entry of index >= 1 at minimal squared distance from it
\* among the surviving entries of index >= 1.
C4_RoundTrip ==
    \A q \in OpaqueWritten :
        LET c == Rgb(frames[q[1]].px[q[2]])
            idx == written[q[1]].indexed[q[2]]
        IN /\ idx < PaletteEntries
           /\ \/ PaletteEntry(idx) = c
              \/ /\ idx >= 1
                 /\ \A j \in 1..(PaletteEntries - 1) :
                       SqDist(c, PaletteEntry(idx)) <= SqDist(c, PaletteEntry(j))

\* after a truncation, a pixel of a dropped colour was written with another colour's index
C4_Witness ==
    /\ Overflowed
    /\ \E q \in OpaqueWritten :
          /\ written[q[1]].searched[q[2]]
          /\ written[q[1]].indexed[q[2]] >= 1
          /\ PaletteEntry(written[q[1]].indexed[q[2]]) # Rgb(frames[q[1]].px[q[2]])

\* C5: no pixel with alpha > 0 is encoded as palette index 0.
C5_OpaqueNeverZero ==
    \A q \in OpaqueWritten : written[q[1]].indexed[q[2]] # 0

\* C15: every pixel with alpha == 0 is written as index 0 whatever its RGB, and a
\* frame's transparency key is index 0 if it has a pixel with alpha == 0 and is not
\* set otherwise.
C15_TransparentKey ==
    \A i \in 1..Len(written) :
        LET px == frames[i].px
            clear == {k \in 1..Len(px) : px[k][4] = 0}
        IN /\ \A k \in clear : written[i].indexed[k] = 0
           /\ written[i].transparent = (IF clear # {} THEN Some(0) ELSE None)

\* a frame whose transparent pixel has a non-black RGB was written with the key, and a
\* frame of opaque pixels without it
C15_Witness ==
    /\ gpc = "done" /\ Len(color_list) > 1
    /\ \E i \in 1..Len(written) :
          /\ frames[i].px[Len(frames[i].px)] = <<9, 9, 9, 0>>
          /\ written[i].indexed[Len(frames[i].px)] = 0
          /\ written[i].transparent = Some(0)
    /\ \E i \in 1..Len(written) :
          /\ \A k \in 1..Len(frames[i].px) : frames[i].px[k][4] > 0
          /\ written[i].transparent = None

\* the pixels of one frame, and pixel k of the stack, frames in order and each frame in
\* raster order
FramePixels == width * height
PixelAt(k) == frames[((k - 1) \div FramePixels) + 1].px[((k - 1) % FramePixels) + 1]

\* the colours the first pass can add, pixel by pixel: the RGB of an opaque pixel, the
\* marker colour for a pixel it passes over
Appearances ==
    [k \in 1..(Len(frames) * FramePixels) |->
        IF PixelAt(k)[4] > 0 THEN Rgb(PixelAt(k)) ELSE transparent_marker]

\* C23: the entries after entry 0 are pairwise distinct, none is the marker colour, and
\* they are the colours of the opaque pixels in the order they first appear (frames in
\* order, pixels in raster order), cut to the first 255 by the truncation (the list of
\* the first pass is compared pairwise, and the list in use is a prefix of it); from the end
\* of the first pass on, color_map maps a colour to i only if palette entry i is that
\* colour, and every entry after entry 0 is found at its own index, so after the
\* truncation exactly the surviving colours are found.
C23_PaletteOrder ==
    /\ gpc = "truncate" =>
          LET seen == Appearances
              first == {k \in DOMAIN seen :
                          /\ seen[k] # transparent_marker
                          /\ \A j \in 1..(k - 1) : seen[j] # seen[k]}
          IN /\ Len(collected) = 1 + Cardinality(first)
             /\ \A k \in first :
                   collected[1 + Cardinality({j \in first : j <= k})] = seen[k]
             /\ \A i \in 2..Len(collected) :
                   \A j \in (i + 1)..Len(collected) : collected[j] # collected[i]
    /\ gpc \in {"truncate", "encode", "done"} =>
          /\ color_list =
                SubSeq(collected, 1,
                       IF gpc # "truncate" /\ Len(collected) > 256 THEN 256 ELSE Len(collected))
          /\ \A i \in 2..Len(color_list) :
                /\ color_list[i] # <<0, 0, 0>>
                /\ PaletteEntry(i - 1) = color_list[i]
                /\ color_list[i] \in DOMAIN color_map
                /\ color_map[color_list[i]] = i - 1
          /\ \A c \in DOMAIN color_map :
                color_map[c] < PaletteEntries /\ PaletteEntry(color_map[c]) = c

\* two colours first seen at the ends of the two frames, after the ramp: the first pass
\* found 257 entries, and the one dropped is no longer found by the lookup
C23_Witness ==
    /\ gpc = "done" /\ Len(collected) = 257 /\ Len(color_list) = 256
    /\ collected[256] = Rgb(frames[1].px[FramePixels])
    /\ collected[257] = Rgb(frames[2].px[FramePixels])
    /\ collected[257] \notin DOMAIN color_map
    /\ collected[256] \in DOMAIN color_map

\* the colours the truncation dropped
Dropped == {collected[i] : i \in (MaxColors + 1)..Len(collected)}

\* C24: find_nearest_color is invoked for an opaque pixel only if the truncation
\* occurred and the pixel's colour was among the dropped entries; with at most 255
\* distinct opaque colours in the stack it is never invoked.
C24_SearchOnlyOverflow ==
    \A q \in OpaqueWritten :
        written[q[1]].searched[q[2]] =>
            Overflowed /\ Rgb(frames[q[1]].px[q[2]]) \in Dropped

(***************************************************************************)
(* find_nearest_color on its own                                           *)
(***************************************************************************)
MaxPaletteLen == 3

\* the colours the palettes and the searched colour are drawn from
NearColors ==
    { <<0, 0, 0>>, <<2, 0, 0>>, <<0, 2, 0>>, <<1, 1, 0>>, <<1, 0, 0>>, <<0, 0, 2>> }

RECURSIVE Seqs(_, _)
\* the sequences over S of length at most n
Seqs(S, n) ==
    IF n = 0 THEN {<< >>}
    ELSE LET P == Seqs(S, n - 1) IN P \cup {Append(p, e) : p \in P, e \in S}

\* palette[0] is included in the slice the function is given (main.rs 390, 424)
InitNearest ==
    /\ ncolor \in NearColors
    /\ npalette \in Seqs(NearColors, MaxPaletteLen)
    /\ npc = "call" /\ nret = 0
    /\ IdleInputs /\ IdleBBox /\ IdleGif /\ IdleImport /\ IdleTools

\* main.rs 297-320
NearestReturn ==
    /\ npc = "call"
    /\ nret' = find_nearest_color(ncolor, npalette)
    /\ npc' = "returned"
    /\ UNCHANGED <<toolVars, inputVars, ncolor, npalette, bboxVars, gifVars, importVars>>

NextNearest == NearestReturn

SpecNearest == InitNearest /\ [][NextNearest]_vars

\* the indices >= 1 of the palette entries nearest to the searched colour
NearestIndices ==
    {j \in 1..(Len(npalette) - 1) :
        \A k \in 1..(Len(npalette) - 1) :
            SqDist(ncolor, At(npalette, j)) <= SqDist(ncolor, At(npalette, k))}

\* C6: find_nearest_color returns the smallest index >= 1 among the entries at
\* minimal squared distance from the colour.
C6_LowestTie ==
    (npc = "returned" /\ Len(npalette) > 1) =>
        /\ nret \in NearestIndices
        /\ \A j \in NearestIndices : nret <= j

\* two entries of index >= 1 tie for nearest and the lower index was returned
C6_Witness ==
    /\ npc = "returned" /\ Len(npalette) > 2
    /\ Cardinality(NearestIndices) >= 2
    /\ At(npalette, 1) # At(npalette, 2)
    /\ nret = 1 /\ 2 \in NearestIndices
    /\ SqDist(ncolor, At(npalette, 0)) < SqDist(ncolor, At(npalette, 1))

(***************************************************************************)
(* The project document and ensure_gm_folders_value                        *)
(* A string is the sequence of its characters; a literal that is only ever *)
(* used whole ("folders/", ".yy", "GMFolder") is kept as one element.      *)
(***************************************************************************)
MaxPathLen == 3
MaxCalls == 2

RECURSIVE SplitFrom(_, _, _)
\* str::split('/') from position k on, cur the part read so far
SplitFrom(s, k, cur) ==
    IF k > Len(s) THEN <<cur>>
    ELSE IF s[k] = "/" THEN <<cur>> \o SplitFrom(s, k + 1, << >>)
    ELSE SplitFrom(s, k + 1, Append(cur, s[k]))

\* gm_import.rs 187: gm_folder_path.split('/').collect()
Split(s) == SplitFrom(s, 1, << >>)

\* gm_import.rs 92 and 197: format!("folders/{}.yy")
FolderYyPath(path) == <<"folders/">> \o path \o <<".yy">>

\* gm_project_model.rs 30-39: GMFolder::new (gm_folder is "$GMFolder", name_field "%Name")
GMFolder_new(name, folder_path) ==
    [gm_folder |-> << >>, name_field |-> name, folderPath |-> folder_path, name |-> name,
     resourceType |-> <<"GMFolder">>, resourceVersion |-> <<"2.0">>]

\* gm_import.rs 199-203 comparing folderPath with the bare accumulated path
AlreadyExistsBare(folders, accumulated) ==
    \E i \in 1..Len(folders) : folders[i].folderPath = accumulated

\* gm_import.rs 197-203: some record's folderPath is the formatted path
AlreadyExists(folders, accumulated) ==
    \E i \in 1..Len(folders) : folders[i].folderPath = FolderYyPath(accumulated)

\* gm_import.rs 191-195 without the join: the part alone
AccumulatePart(accumulated, part) == part

\* gm_import.rs 191-195
Accumulate(accumulated, part) ==
    IF accumulated = << >> THEN part ELSE accumulated \o <<"/">> \o part

RECURSIVE EnsureParts(_, _, _, _)
\* gm_import.rs 190-211: the loop over the parts
EnsureParts(folders, parts, k, accumulated) ==
    IF k > Len(parts) THEN folders
    ELSE LET acc == Accumulate(accumulated, parts[k])
         IN EnsureParts(IF ~AlreadyExists(folders, acc)
                        THEN Append(folders, GMFolder_new(parts[k], FolderYyPath(acc)))
                        ELSE folders,
                        parts, k + 1, acc)

\* gm_import.rs 178-214; doc is the parsed document [Folders, resources], each None when
\* the key is missing or no array. The result is [ok, doc].
ensure_gm_folders_value(doc, gm_folder_path) ==
    IF ~IsSome(doc.Folders) THEN [ok |-> FALSE, doc |-> doc]
    ELSE [ok |-> TRUE,
          doc |-> [doc EXCEPT !.Folders =
                      Some(EnsureParts(Unwrap(doc.Folders), Split(gm_folder_path), 1, << >>))]]

\* a folder record that was in the document before, as the IDE wrote it
OldFolder(name, path) ==
    [gm_folder |-> <<"v1">>, name_field |-> name, folderPath |-> FolderYyPath(path),
     name |-> name, resourceType |-> <<"GMFolder">>, resourceVersion |-> <<"2.0">>]

\* the Folders values a document starts with: missing, or a list without duplicates
InitFolderLists ==
    { None,
      Some(<< >>),
      Some(<<OldFolder(<<"S">>, <<"S">>)>>),
      Some(<<OldFolder(<<"S">>, <<"S", "/", "S">>), OldFolder(<<"S">>, <<"S">>)>>) }

\* the folder path strings: every string over 'S' and '/' of at most MaxPathLen characters
PathStrings == Seqs({"S", "/"}, MaxPathLen)

InitFolders ==
    /\ \E f \in InitFolderLists :
         project = Some([Folders |-> f, resources |-> Some(<< >>)])
    /\ ipc = "folders" /\ calls = 0
    /\ last = [path |-> << >>, prev |-> << >>, ok |-> FALSE, before |-> << >>]
    /\ sprites = << >> /\ next_guid = 0 /\ upserted = {} /\ disk = "none"
    /\ IdleInputs /\ IdleBBox /\ IdleGif /\ IdleNearest /\ IdleTools

\* gm_import.rs 178-214: a call that returns Ok
EnsureOk ==
    /\ ipc = "folders" /\ calls < MaxCalls
    /\ \E path \in PathStrings :
         LET r == ensure_gm_folders_value(Unwrap(project), path)
         IN /\ r.ok
            /\ project' = Some(r.doc)
            /\ last' = [path |-> path, prev |-> last.path, ok |-> TRUE,
                        before |-> Unwrap(Unwrap(project).Folders)]
    /\ calls' = calls + 1
    /\ UNCHANGED <<toolVars, inputVars, bboxVars, gifVars, nearVars,
                   ipc, sprites, next_guid, upserted, disk>>

\* gm_import.rs 182-185: the document has no 'Folders' array
EnsureErr ==
    /\ ipc = "folders" /\ calls < MaxCalls
    /\ \E path \in PathStrings :
         LET r == ensure_gm_folders_value(Unwrap(project), path)
         IN /\ ~r.ok
            /\ project' = Some(r.doc)
            /\ last' = [path |-> path, prev |-> last.path, ok |-> FALSE, before |-> << >>]
    /\ calls' = calls + 1
    /\ UNCHANGED <<toolVars, inputVars, bboxVars, gifVars, nearVars,
                   ipc, sprites, next_guid, upserted, disk>>

NextFolders == EnsureOk \/ EnsureErr

SpecFolders == InitFolders /\ [][NextFolders]_vars

\* the Folders list of the document
FoldersNow == Unwrap(Unwrap(project).Folders)

\* the character positions of the '/' in s, and the number of parts of s
SlashAt(s) == {k \in 1..Len(s) : s[k] = "/"}
PartCount(s) == Cardinality(SlashAt(s)) + 1

\* the prefix S1/.../Sk of s: s up to its k-th '/', or all of s for the last part
PrefixOf(s, k) ==
    IF k = PartCount(s) THEN s
    ELSE LET cut == CHOOSE c \in SlashAt(s) : Cardinality({d \in SlashAt(s) : d <= c}) = k
         IN SubSeq(s, 1, cut - 1)

\* C8: a second call with the same path appends no folder record, and no sequence of
\* calls on a document without duplicate folderPath values produces two records with
\* the same folderPath.
C8_Idempotent ==
    (ipc = "folders" /\ IsSome(Unwrap(project).Folders)) =>
        /\ (calls > 0 /\ last.ok) =>
              ensure_gm_folders_value(Unwrap(project), last.path).doc = Unwrap(project)
        /\ (calls > 1 /\ last.ok /\ last.path = last.prev) => FoldersNow = last.before
        /\ \A i, j \in 1..Len(FoldersNow) :
              FoldersNow[i].folderPath = FoldersNow[j].folderPath => i = j

\* the same two-part path was ensured twice; the second call appended nothing
C8_Witness ==
    /\ ipc = "folders" /\ calls = 2 /\ last.ok /\ last.path = last.prev
    /\ last.path = <<"S", "/", "S">>
    /\ FoldersNow = last.before
    /\ \E i \in 1..Len(FoldersNow) : FoldersNow[i].gm_folder = << >>

\* C9: after a successful call with S1/.../Sn the list has a record for every prefix
\* S1, S1/S2, ..., the records the call appended are in parent-then-child order, and
\* the records that were there before are where and what they were.
C9_ChainPresent ==
    (ipc = "folders" /\ calls > 0 /\ last.ok) =>
        /\ \A k \in 1..PartCount(last.path) :
              \E i \in 1..Len(FoldersNow) :
                 FoldersNow[i].folderPath = FolderYyPath(PrefixOf(last.path, k))
        /\ Len(FoldersNow) >= Len(last.before)
        /\ SubSeq(FoldersNow, 1, Len(last.before)) = last.before
        /\ \A i, j \in (Len(last.before) + 1)..Len(FoldersNow) :
              i < j => Len(FoldersNow[i].folderPath) < Len(FoldersNow[j].folderPath)

(***************************************************************************)
(* import_sprite_to_project                                                *)
(***************************************************************************)
\* the sprite names imported
Names == {"sHero", "sFlag"}

\* gm_sprite_model.rs 23-28 with the fallback box one pixel too wide and too high
GMSpriteModel_newWide(name, w, h, guids, key_ids, layer_guid, parent, box) ==
    LET b == IF IsSome(box) THEN Unwrap(box)
             ELSE [left |-> 0, top |-> 0, right |-> w, bottom |-> h]
    IN [name |-> name, width |-> w, height |-> h,
        bboxMode |-> 0,
        bbox_bottom |-> b.bottom, bbox_left |-> b.left,
        bbox_right |-> b.right, bbox_top |-> b.top,
        origin |-> 0,
        frames |-> guids,
        layers |-> <<layer_guid>>,
        parent |-> parent,
        sequence |-> [length |-> Len(guids), xorigin |-> 0, yorigin |-> 0,
                      keyframes |-> [i \in 1..Len(guids) |->
                                       [id |-> key_ids[i], key |-> i - 1, length |-> 1,
                                        frame |-> guids[i]]]]]

\* gm_sprite_model.rs 30-68 with the keyframes keyed from 1
GMSpriteModel_newKeyFromOne(name, w, h, guids, key_ids, layer_guid, parent, box) ==
    LET b == IF IsSome(box) THEN Unwrap(box)
             ELSE [left |-> 0, top |-> 0, right |-> w - 1, bottom |-> h - 1]
    IN [name |-> name, width |-> w, height |-> h,
        bboxMode |-> 0,
        bbox_bottom |-> b.bottom, bbox_left |-> b.left,
        bbox_right |-> b.right, bbox_top |-> b.top,
        origin |-> 0,
        frames |-> guids,
        layers |-> <<layer_guid>>,
        parent |-> parent,
        sequence |-> [length |-> Len(guids), xorigin |-> 0, yorigin |-> 0,
                      keyframes |-> [i \in 1..Len(guids) |->
                                       [id |-> key_ids[i], key |-> i, length |-> 1,
                                        frame |-> guids[i]]]]]


\* gm_sprite_model.rs 14-185: GMSpriteModel::new. guids are the frame identifiers,
\* key_ids the identifiers generated for the keyframes (line 60); box is Option<BBox>.
GMSpriteModel_new(name, w, h, guids, key_ids, layer_guid, parent, box) ==
    LET b == IF IsSome(box) THEN Unwrap(box)
             ELSE [left |-> 0, top |-> 0, right |-> w - 1, bottom |-> h - 1]
    IN [name |-> name, width |-> w, height |-> h,
        bboxMode |-> 0,
        bbox_bottom |-> b.bottom, bbox_left |-> b.left,
        bbox_right |-> b.right, bbox_top |-> b.top,
        origin |-> 0,
        frames |-> guids,
        layers |-> <<layer_guid>>,
        parent |-> parent,
        sequence |-> [length |-> Len(guids), xorigin |-> 0, yorigin |-> 0,
                      keyframes |-> [i \in 1..Len(guids) |->
                                       [id |-> key_ids[i], key |-> i - 1, length |-> 1,
                                        frame |-> guids[i]]]]]

\* gm_import.rs 300 comparing the widths only
DimsDifferWidth(old_width, old_height, new_width, new_height) ==
    old_width # new_width

\* gm_import.rs 300
DimsDiffer(old_width, old_height, new_width, new_height) ==
    old_width # new_width \/ old_height # new_height

\* gm_import.rs 286-316; dir is the sprite's directory, None when there is none
read_sprite_overrides(dir, new_width, new_height) ==
    IF ~IsSome(dir) THEN None
    ELSE IF ~IsSome(Unwrap(dir).yy) THEN None
    ELSE LET val == Unwrap(Unwrap(dir).yy)
         IN IF DimsDiffer(val.width, val.height, new_width, new_height) THEN None
            ELSE Some([bbox_mode |-> val.bboxMode,
                       bbox_bottom |-> val.bbox_bottom, bbox_left |-> val.bbox_left,
                       bbox_right |-> val.bbox_right, bbox_top |-> val.bbox_top,
                       origin |-> val.origin,
                       xorigin |-> val.sequence.xorigin, yorigin |-> val.sequence.yorigin])

\* gm_import.rs 115-124
ApplyOverrides(model, overrides) ==
    IF IsSome(overrides)
    THEN LET ov == Unwrap(overrides)
         IN [model EXCEPT !.bboxMode = ov.bbox_mode,
                          !.bbox_bottom = ov.bbox_bottom, !.bbox_left = ov.bbox_left,
                          !.bbox_right = ov.bbox_right, !.bbox_top = ov.bbox_top,
                          !.origin = ov.origin,
                          !.sequence.xorigin = ov.xorigin, !.sequence.yorigin = ov.yorigin]
    ELSE model

RECURSIVE RetainSameName(_, _)
\* gm_import.rs 144-150 with == for !=: the entries of the name are the ones kept
RetainSameName(resources, sprite_name) ==
    IF resources = << >> THEN << >>
    ELSE IF Head(resources).id.name = sprite_name
         THEN <<Head(resources)>> \o RetainSameName(Tail(resources), sprite_name)
         ELSE RetainSameName(Tail(resources), sprite_name)

RECURSIVE Retain(_, _)
\* gm_import.rs 144-150: resources.retain(id.name != sprite_name)
Retain(resources, sprite_name) ==
    IF resources = << >> THEN << >>
    ELSE IF Head(resources).id.name # sprite_name
         THEN <<Head(resources)>> \o Retain(Tail(resources), sprite_name)
         ELSE Retain(Tail(resources), sprite_name)

\* gm_import.rs 136, 153-155
ResourceEntry(sprite_name) ==
    [id |-> [name |-> sprite_name,
             path |-> <<"sprites/", sprite_name, "/", sprite_name, ".yy">>]]

\* gm_import.rs 144-155 without the retain
UpsertPush(resources, sprite_name) ==
    Append(resources, ResourceEntry(sprite_name))

\* gm_import.rs 144-155
Upsert(resources, sprite_name) ==
    Append(Retain(resources, sprite_name), ResourceEntry(sprite_name))

\* gm_import.rs 66-84 without the layer copies (76-83)
FramePngsRootOnly(fs, guids, layer_guid) ==
    {[path |-> <<guids[i]>>, image |-> Raw(fs[i])] : i \in 1..Len(fs)}

\* gm_import.rs 66-84: the two PNG files of every frame
FramePngs(fs, guids, layer_guid) ==
    {[path |-> <<guids[i]>>, image |-> Raw(fs[i])] : i \in 1..Len(fs)}
        \cup {[path |-> <<"layers", guids[i], layer_guid>>, image |-> Raw(fs[i])] :
                 i \in 1..Len(fs)}

\* the filesystem operations of an import that can fail, by the line that makes them:
\* 41 remove_dir_all, 59 create_dir_all, 73 save, 129 write (.yy), 161 write (.yyp)
FailPoints == {"remove_dir_all", "create_dir_all", "save", "write_yy", "write_yyp"}

\* what a call leaves: the .yyp file, the sprites directory, the identifiers used, and
\* ok (Ok or Err returned), panic (the call did not return), wrote (the new descriptor
\* was written), prior (the sprite's descriptor file before the call)
Outcome(proj, sprs, guid, ok, panic, wrote, prior) ==
    [project |-> proj, sprites |-> sprs, next_guid |-> guid,
     ok |-> ok, panic |-> panic, wrote |-> wrote, prior |-> prior]

\* gm_import.rs 39-42 with the directory left as it is
RemoveDirKept(dir) == dir

\* gm_import.rs 39-42: remove_dir_all on the sprite's directory
RemoveDirAll(dir) == None

\* gm_import.rs 58-60: create_dir_all makes the directory if there is none
CreateDirAll(dir) == IF IsSome(dir) THEN dir ELSE Some([yy |-> None, pngs |-> {}])

\* gm_import.rs 66-84: the PNG files saved in the directory, a file of the same path
\* replaced
SavePngs(dir, pngs) ==
    Some([yy |-> Unwrap(dir).yy,
          pngs |-> {f \in Unwrap(dir).pngs : \A g \in pngs : g.path # f.path} \cup pngs])

\* gm_import.rs 126-130: the descriptor file written in the directory
WriteYy(dir, sprite_model) == Some([yy |-> Some(sprite_model), pngs |-> Unwrap(dir).pngs])

\* gm_import.rs 133-157 with the merges made in the file itself
StoredInPlace(file, ensured) == IF ensured.ok THEN Some(ensured.doc) ELSE file

\* gm_import.rs 28-33, 133-157: the merges are made in project_value, a value parsed from
\* the file's text, so the file is as it was until line 161 writes it
Stored(file, ensured) == file

\* gm_import.rs 16-172. st is [project, sprites, next_guid, disk]: the .yyp file, the
\* sprites directory, the identifiers used, and the filesystem operation that fails on
\* this disk ("none" when all succeed).
import_sprite_to_project(st, sprite_name, fs, gm_folder_path, w, h) ==
    IF ~IsSome(st.project)
    THEN \* 29-33: the .yyp cannot be parsed
         Outcome(st.project, st.sprites, st.next_guid, FALSE, FALSE, FALSE, None)
    ELSE
    LET doc == Unwrap(st.project)
        dir == st.sprites[sprite_name]
        overrides == read_sprite_overrides(dir, w, h)
        n == Len(fs)
        layer_guid == st.next_guid + 1
        frame_guids == [i \in 1..n |-> st.next_guid + 1 + i]
        key_ids == [i \in 1..n |-> st.next_guid + 1 + n + i]
        scanned == calculate_tight_bbox(fs, w, h)
        box == scanned.value
        parts == Split(gm_folder_path)
        parent_ref == [name |-> parts[Len(parts)], path |-> FolderYyPath(gm_folder_path)]
        sprite_model == ApplyOverrides(
            GMSpriteModel_new(sprite_name, w, h, frame_guids, key_ids, layer_guid,
                              parent_ref, box),
            overrides)
        pngs == FramePngs(fs, frame_guids, layer_guid)
        cleared == IF IsSome(dir) THEN RemoveDirAll(dir) ELSE dir
        made == CreateDirAll(cleared)
        saved == SavePngs(made, pngs)
        With(d) == [st.sprites EXCEPT ![sprite_name] = d]
        sprites1 == With(WriteYy(saved, sprite_model))
        ensured == ensure_gm_folders_value(doc, gm_folder_path)
        prior == IF IsSome(dir) THEN Unwrap(dir).yy ELSE None
        g1 == st.next_guid + 1 + n
        g2 == st.next_guid + 1 + 2 * n
        failed == Outcome(Stored(st.project, ensured), sprites1, g2, FALSE, FALSE, TRUE, prior)
    IN IF IsSome(dir) /\ st.disk = "remove_dir_all"        \* 40-42
       THEN Outcome(st.project, st.sprites, st.next_guid, FALSE, FALSE, FALSE, prior)
       ELSE IF st.disk = "create_dir_all"                  \* 59-60
       THEN Outcome(st.project, With(cleared), g1, FALSE, FALSE, FALSE, prior)
       ELSE IF n > 0 /\ st.disk = "save"                   \* 73-74, the first frame
       THEN Outcome(st.project, With(made), g1,
                    FALSE, FALSE, FALSE, prior)
       ELSE IF scanned.panic                               \* 87: after 40-84, before 104
       THEN Outcome(st.project, With(saved), g1, FALSE, TRUE, FALSE, prior)
       ELSE IF st.disk = "write_yy"                        \* 129-130
       THEN Outcome(st.project, With(saved), g2, FALSE, FALSE, FALSE, prior)
       ELSE IF ~ensured.ok THEN failed                     \* 133
       ELSE IF ~IsSome(ensured.doc.resources) THEN failed  \* 138-141
       ELSE IF st.disk = "write_yyp" THEN failed           \* 161-162
       ELSE Outcome(Some([ensured.doc EXCEPT !.resources =
                             Some(Upsert(Unwrap(ensured.doc.resources), sprite_name))]),
                    sprites1, g2, TRUE, FALSE, TRUE, prior)

\* a frame of 8x8 opaque pixels
Opaque8 == MkFrame(8, 8, (0..7) \X (0..7), 255)

\* the frame stacks imported, as [width, height, frames]: one 2x2 frame with one opaque
\* pixel, two transparent 2x2 frames, one 2x1 frame with one opaque pixel, two opaque
\* 8x8 frames, one 2x1 frame declared as 2x2, and two 2x2 frames that differ
ImportStacks ==
    { [width |-> 2, height |-> 2, frames |-> <<MkFrame(2, 2, {<<1, 0>>}, 255)>>],
      [width |-> 2, height |-> 2, frames |-> <<MkFrame(2, 2, {}, 255), MkFrame(2, 2, {}, 255)>>],
      [width |-> 2, height |-> 1, frames |-> <<MkFrame(2, 1, {<<0, 0>>}, 255)>>],
      [width |-> 8, height |-> 8, frames |-> <<Opaque8, Opaque8>>],
      [width |-> 2, height |-> 2, frames |-> <<MkFrame(2, 1, {<<0, 0>>}, 255)>>],
      [width |-> 2, height |-> 2,
       frames |-> <<MkFrame(2, 2, {<<0, 0>>}, 255), MkFrame(2, 2, {<<1, 1>>}, 255)>>] }

\* "Sprites/Flags", character by character
SpritesFlags == <<"S", "p", "r", "i", "t", "e", "s", "/", "F", "l", "a", "g", "s">>

\* the folder paths imported into: "S", "Sprites/Flags" and "/S"
ImportPaths == { <<"S">>, SpritesFlags, <<"/", "S">> }

\* a 2x2 sprite "sHero" already in the project, its bounding box and origin set by hand
OldHero ==
    [yy |-> Some([GMSpriteModel_new("sHero", 2, 2, <<-1>>, <<-2>>, -3,
                                    [name |-> <<"S">>, path |-> FolderYyPath(<<"S">>)], None)
                  EXCEPT !.bboxMode = 2,
                         !.bbox_left = 1, !.bbox_top = 1, !.bbox_right = 1, !.bbox_bottom = 1,
                         !.origin = 4, !.sequence.xorigin = 1, !.sequence.yorigin = 1]),
     pngs |-> FramePngs(<<MkFrame(2, 2, {<<0, 0>>, <<1, 1>>}, 255)>>, <<-1>>, -3)]

\* a resource of another kind, listed in the project from the start
OtherResource ==
    [id |-> [name |-> "oOther", path |-> <<"objects/", "oOther", "/", "oOther", ".yy">>]]

\* a top-level field of the document that the importer does not know
OldMetaData == [IDEVersion |-> "2024.8"]

\* The project before the first import: the .yyp is unparsable, or lacks one of its two
\* arrays, or is complete; "sHero" exists already or not. The frame stack and its
\* declared size are the ones every import of the run is given.
InitImport ==
    /\ \E stack \in ImportStacks :
         frames = stack.frames /\ width = stack.width /\ height = stack.height
    /\ \E hero \in {None, Some(OldHero)} :
         /\ sprites = [nm \in Names |-> IF nm = "sHero" THEN hero ELSE None]
         /\ \/ project = None
            \/ \E f \in {None, Some(<< >>), Some(<<OldFolder(<<"S">>, <<"S">>)>>)},
                  r \in {None,
                         Some(<< >>),
                         Some(<<OtherResource>> \o
                              (IF IsSome(hero) THEN <<ResourceEntry("sHero")>> ELSE << >>))} :
                 project = Some([Folders |-> f, resources |-> r, MetaData |-> OldMetaData])
    /\ disk \in {"none"} \cup FailPoints
    /\ ipc = "import" /\ calls = 0 /\ next_guid = 0 /\ upserted = {}
    /\ last = [name |-> "", path |-> << >>, ok |-> FALSE, wrote |-> FALSE, again |-> FALSE,
               prior |-> None, project |-> None, dir |-> None, guid |-> 0]
    /\ IdleBBox /\ IdleGif /\ IdleNearest /\ IdleTools

\* the call import_sprite_to_project(project_path, nm, frames, path, width, height) on
\* the project as it is
ImportResult(nm, path) ==
    import_sprite_to_project(
        [project |-> project, sprites |-> sprites, next_guid |-> next_guid, disk |-> disk],
        nm, frames, path, width, height)

\* what the call leaves behind: the files, the identifiers used, and the record of it
ImportEffect(nm, path, r) ==
    /\ project' = r.project
    /\ sprites' = r.sprites
    /\ next_guid' = r.next_guid
    /\ upserted' = IF r.ok THEN upserted \cup {nm} ELSE upserted
    /\ last' = [name |-> nm, path |-> path, ok |-> r.ok, wrote |-> r.wrote,
                again |-> nm \in upserted, prior |-> r.prior,
                project |-> project, dir |-> sprites[nm], guid |-> next_guid]
    /\ calls' = calls + 1
    /\ ipc' = IF r.panic THEN "panicked" ELSE ipc
    /\ UNCHANGED <<toolVars, inputVars, bboxVars, gifVars, nearVars, disk>>

\* gm_import.rs 16-172, the import returns Ok(())
ImportOk ==
    /\ ipc = "import" /\ calls < MaxCalls
    /\ \E nm \in Names, path \in ImportPaths :
         LET r == ImportResult(nm, path)
         IN r.ok /\ ImportEffect(nm, path, r)

\* gm_import.rs 33, 42, 60, 74, 130, 133, 141, 162: the import returns Err
ImportErr ==
    /\ ipc = "import" /\ calls < MaxCalls
    /\ \E nm \in Names, path \in ImportPaths :
         LET r == ImportResult(nm, path)
         IN ~r.ok /\ ~r.panic /\ ImportEffect(nm, path, r)

\* gm_import.rs 87 and bbox.rs 27: the import panics, nothing is returned and the
\* thread of the caller unwinds
ImportPanic ==
    /\ ipc = "import" /\ calls < MaxCalls
    /\ \E nm \in Names, path \in ImportPaths :
         LET r == ImportResult(nm, path)
         IN r.panic /\ ImportEffect(nm, path, r)

NextImport == ImportOk \/ ImportErr \/ ImportPanic

SpecImport == InitImport /\ [][NextImport]_vars

\* the resources list of the stored document
ResourcesNow == Unwrap(Unwrap(project).resources)

\* C7: after any sequence of imports the resources list has exactly one entry for each
\* imported name, and after an import the entry of its name is the last of the list.
C7_UpsertOnce ==
    (ipc = "import" /\ upserted # {}) =>
        /\ \A nm \in upserted :
              Cardinality({i \in 1..Len(ResourcesNow) : ResourcesNow[i].id.name = nm}) = 1
        /\ last.ok => ResourcesNow[Len(ResourcesNow)].id.name = last.name

\* the same name was imported a second time, with another resource listed before it
C7_Witness ==
    /\ ipc = "import" /\ calls = 2 /\ last.ok /\ last.again
    /\ Len(ResourcesNow) = 2
    /\ ResourcesNow[1].id.name = "oOther"
    /\ ResourcesNow[2].id.name = last.name

\* the descriptor the last import wrote, and the one it found
NewYy == Unwrap(Unwrap(sprites[last.name]).yy)
PriorYy == Unwrap(last.prior)
BoxOf(d) == <<d.bbox_left, d.bbox_top, d.bbox_right, d.bbox_bottom>>
OriginOf(d) == <<d.origin, d.sequence.xorigin, d.sequence.yorigin>>

\* the bounding box of the imported frames, from the set of their occupied cells
FreshBox ==
    IF OccupiedCells = {} THEN <<0, 0, width - 1, height - 1>>
    ELSE <<CHOOSE x \in 0..(width - 1) :
              /\ \E c \in OccupiedCells : c[1] = x
              /\ \A c \in OccupiedCells : x <= c[1],
           CHOOSE y \in 0..(height - 1) :
              /\ \E c \in OccupiedCells : c[2] = y
              /\ \A c \in OccupiedCells : y <= c[2],
           CHOOSE x \in 0..(width - 1) :
              /\ \E c \in OccupiedCells : c[1] = x
              /\ \A c \in OccupiedCells : x >= c[1],
           CHOOSE y \in 0..(height - 1) :
              /\ \E c \in OccupiedCells : c[2] = y
              /\ \A c \in OccupiedCells : y >= c[2]>>

DocBefore == Unwrap(last.project)
DocNow == Unwrap(project)
LastDir == Unwrap(sprites[last.name])

\* the raster files of the sprite at the resource root, and the layer copies
RootPngs == {f \in LastDir.pngs : Len(f.path) = 1}
LayerPngs == {f \in LastDir.pngs : Len(f.path) = 3 /\ f.path[1] = "layers"}

\* the last call imported two opaque 8x8 frames as "sFlag" under "Sprites/Flags" into
\* a project with empty Folders and resources lists and no such sprite, on a sound disk
EndToEndCase ==
    /\ ipc = "import" /\ calls > 0 /\ disk = "none"
    /\ last.name = "sFlag" /\ last.path = SpritesFlags /\ last.dir = None
    /\ width = 8 /\ height = 8 /\ frames = <<Opaque8, Opaque8>>
    /\ IsSome(last.project)
    /\ DocBefore.Folders = Some(<< >>) /\ DocBefore.resources = Some(<< >>)

\* C12: that import succeeds and leaves a document whose folder records are the ones
\* of "Sprites" and "Sprites/Flags", with exactly one resource entry, named "sFlag";
\* the two frames' raster files are written (each with its layer copy) and the
\* descriptor's bounding box is (0,0,7,7).
C12_EndToEnd ==
    EndToEndCase =>
        /\ last.ok
        /\ [i \in 1..Len(FoldersNow) |-> FoldersNow[i].folderPath]
              = << FolderYyPath(<<"S", "p", "r", "i", "t", "e", "s">>),
                   FolderYyPath(SpritesFlags) >>
        /\ [i \in 1..Len(FoldersNow) |-> FoldersNow[i].name]
              = << <<"S", "p", "r", "i", "t", "e", "s">>, <<"F", "l", "a", "g", "s">> >>
        /\ Len(ResourcesNow) = 1 /\ ResourcesNow[1].id.name = "sFlag"
        /\ Cardinality(RootPngs) = 2 /\ Cardinality(LayerPngs) = 2
        /\ LastDir.pngs = RootPngs \cup LayerPngs
        /\ BoxOf(NewYy) = <<0, 0, 7, 7>>

\* the end-to-end import was made and returned Ok
C12_Witness ==
    /\ EndToEndCase /\ last.ok /\ calls = 1
    /\ Len(FoldersNow) = 2 /\ IsSome(LastDir.yy)

\* C25: after a successful import with any folder path, the parent reference of the
\* new descriptor has the folderPath of a folder record of the stored document, and the
\* name of that record.
C25_ParentIsRecorded ==
    (ipc = "import" /\ calls > 0 /\ last.ok) =>
        \E i \in 1..Len(FoldersNow) :
            /\ FoldersNow[i].folderPath = NewYy.parent.path
            /\ FoldersNow[i].name = NewYy.parent.name

\* C26: the descriptor built from the N frame identifiers lists them in order (entry i
\* names the raster file of frame i), its timeline has N keyframes, keyframe i (from 0)
\* referencing frame identifier i at time key i with length 1, the sequence length is
\* N, and there is exactly one layer, named by the layer identifier the layer copies
\* of all frames are filed under.
C26_Timeline ==
    (ipc = "import" /\ calls > 0 /\ last.wrote) =>
        LET N == Len(frames)
            keys == NewYy.sequence.keyframes
        IN /\ Len(NewYy.frames) = N
           /\ \A i \in 1..N :
                 [path |-> <<NewYy.frames[i]>>, image |-> frames[i].px] \in RootPngs
           /\ Len(keys) = N
           /\ \A i \in 1..N :
                 keys[i].frame = NewYy.frames[i] /\ keys[i].key = i - 1 /\ keys[i].length = 1
           /\ NewYy.sequence.length = N
           /\ Len(NewYy.layers) = 1
           /\ \A f \in LayerPngs : f.path[3] = NewYy.layers[1]

\* two frames that differ were imported: the second keyframe is at time 1
C26_Witness ==
    /\ ipc = "import" /\ calls > 0 /\ last.ok
    /\ Len(frames) = 2 /\ frames[1].px # frames[2].px
    /\ NewYy.sequence.keyframes[2].key = 1
    /\ NewYy.sequence.keyframes[2].frame = NewYy.frames[2]
    /\ NewYy.frames[1] # NewYy.frames[2]

\* the identifiers a descriptor holds: of its frames, its layer and its keyframes
IdsOf(d) ==
    {d.frames[i] : i \in 1..Len(d.frames)} \cup {d.layers[i] : i \in 1..Len(d.layers)}
        \cup {d.sequence.keyframes[i].id : i \in 1..Len(d.sequence.keyframes)}

\* C27: after a successful import of a name whose resource directory existed, the
\* directory holds only what this import wrote, the N frame files, the N layer copies
\* and the descriptor: no file of the previous version is left, by path or through an
\* identifier of the previous descriptor.
C27_WholeReplaced ==
    (ipc = "import" /\ calls > 0 /\ last.ok /\ IsSome(last.dir)) =>
        LET old == Unwrap(last.dir)
            N == Len(frames)
        IN /\ LastDir.pngs = RootPngs \cup LayerPngs
           /\ Cardinality(RootPngs) = N /\ Cardinality(LayerPngs) = N
           /\ \A f \in LastDir.pngs :
                 \E i \in 1..N : f.path[IF Len(f.path) = 1 THEN 1 ELSE 2] = NewYy.frames[i]
           /\ \A f \in old.pngs : \A g \in LastDir.pngs : g.path # f.path
           /\ IsSome(old.yy) => IdsOf(Unwrap(old.yy)) \cap IdsOf(NewYy) = {}
           /\ LastDir.yy # old.yy

\* a sprite of one frame was replaced by an import of two frames
C27_Witness ==
    /\ ipc = "import" /\ calls > 0 /\ last.ok /\ IsSome(last.dir)
    /\ Cardinality(Unwrap(last.dir).pngs) = 2 /\ IsSome(Unwrap(last.dir).yy)
    /\ Len(frames) = 2 /\ Cardinality(LastDir.pngs) = 4

\* C28: an import that fails at a step before the write of the document leaves the
\* stored document as it was before the call; the stored document changes only in a
\* call that returns Ok, which has then written the frame files and the descriptor and
\* merged the folder records and the resource entry.
C28_DocumentLast ==
    (ipc \in {"import", "panicked"} /\ calls > 0) =>
        /\ (~last.ok /\ disk # "write_yyp") => project = last.project
        /\ project # last.project =>
              /\ last.ok /\ last.wrote
              /\ LastDir.yy = Some(NewYy)
              /\ Cardinality(LastDir.pngs) = 2 * Len(frames)
              /\ ensure_gm_folders_value(DocBefore, last.path).ok
              /\ FoldersNow = Unwrap(ensure_gm_folders_value(DocBefore, last.path).doc.Folders)
              /\ ResourcesNow[Len(ResourcesNow)].id.name = last.name

\* on a sound disk the frame files and the descriptor were written and the folder
\* records merged, then the import failed on the missing resources list
C28_Witness ==
    /\ ipc = "import" /\ calls > 0 /\ ~last.ok /\ last.wrote /\ disk = "none"
    /\ IsSome(DocBefore.Folders) /\ ~IsSome(DocBefore.resources)
    /\ ensure_gm_folders_value(DocBefore, last.path).doc # DocBefore
    /\ project = last.project

\* C13: an import that returns an error leaves the resource directory of its name in
\* the state it had before the call.
C13_FailureLeavesDir ==
    (ipc = "import" /\ calls > 0 /\ ~last.ok) => sprites[last.name] = last.dir

\* C14: no input makes import_sprite_to_project abort: a frame smaller than the
\* declared width x height is reported as a failure value, the call does not panic.
C14_NeverPanics == ipc # "panicked"

\* read_sprite_overrides gave overrides to the last call
OverridesApplied ==
    IsSome(last.prior) /\ PriorYy.width = width /\ PriorYy.height = height

\* C17: when no overrides apply, the descriptor's bounding box is the full frame
\* (0, 0, width-1, height-1) if no pixel is occupied and the tight box of the occupied
\* pixels otherwise, and the origin is (0,0).
C17_DefaultBox ==
    (ipc = "import" /\ calls > 0 /\ last.wrote /\ ~OverridesApplied) =>
        /\ OccupiedCells = {} => BoxOf(NewYy) = <<0, 0, width - 1, height - 1>>
        /\ OccupiedCells # {} => BoxOf(NewYy) = FreshBox
        /\ OriginOf(NewYy) = <<0, 0, 0>>

\* a new sprite of two transparent 2x2 frames got the full-frame box
C17_Witness ==
    /\ ipc = "import" /\ calls > 0 /\ last.ok /\ last.prior = None
    /\ Len(frames) = 2 /\ width = 2 /\ height = 2 /\ OccupiedCells = {}
    /\ BoxOf(NewYy) = <<0, 0, 1, 1>> /\ OriginOf(NewYy) = <<0, 0, 0>>

\* C18: a successful import of N frames leaves, for each frame i, exactly two raster
\* files named from its identifier, one at the resource root and one under
\* layers/{frame identifier}/{layer identifier}, both with the pixels of frame i; the
\* N frames have distinct identifiers and share the one layer identifier.
C18_TwoCopies ==
    (ipc = "import" /\ calls > 0 /\ last.ok) =>
        LET guids == NewYy.frames
            layer == NewYy.layers[1]
            N == Len(frames)
        IN /\ Len(guids) = N /\ Len(NewYy.layers) = 1
           /\ \A i, j \in 1..N : guids[i] = guids[j] => i = j
           /\ \A i \in 1..N : guids[i] # layer
           /\ \A i \in 1..N :
                 {f \in LastDir.pngs : f.path[IF Len(f.path) = 1 THEN 1 ELSE 2] = guids[i]}
                       = { [path |-> <<guids[i]>>, image |-> frames[i].px],
                           [path |-> <<"layers", guids[i], layer>>,
                            image |-> frames[i].px] }
           /\ Cardinality(LastDir.pngs) = 2 * N
           /\ \A f \in LastDir.pngs : \E i \in 1..N : f.image = frames[i].px

\* a one-frame sprite with an opaque pixel was imported over an older version of it
C18_Witness ==
    /\ ipc = "import" /\ calls > 0 /\ last.ok /\ IsSome(last.dir)
    /\ Len(frames) = 1 /\ OccupiedCells # {}
    /\ Cardinality(RootPngs) = 1 /\ Cardinality(LayerPngs) = 1

\* C19: a successful import changes the document only by appending folder records and
\* replacing the entry of its name: the other top-level fields, the folder records
\* that were there and the resource entries of other names are kept as they were, in
\* the order they had.
C19_RestUntouched ==
    (ipc = "import" /\ calls > 0 /\ last.ok) =>
        LET Other(e) == e.id.name # last.name
            before == Unwrap(DocBefore.Folders)
        IN /\ DOMAIN DocNow = DOMAIN DocBefore
           /\ \A k \in DOMAIN DocBefore \ {"Folders", "resources"} : DocNow[k] = DocBefore[k]
           /\ Len(FoldersNow) >= Len(before)
           /\ SubSeq(FoldersNow, 1, Len(before)) = before
           /\ SelectSeq(ResourcesNow, Other) = SelectSeq(Unwrap(DocBefore.resources), Other)
           /\ Len(ResourcesNow) = Len(SelectSeq(ResourcesNow, Other)) + 1

\* "sHero" was imported again into a document that listed another resource before it
\* and had a folder record; a folder record was appended
C19_Witness ==
    /\ ipc = "import" /\ calls = 1 /\ last.ok /\ last.name = "sHero"
    /\ Unwrap(DocBefore.resources) = <<OtherResource, ResourceEntry("sHero")>>
    /\ Len(Unwrap(DocBefore.Folders)) = 1 /\ Len(FoldersNow) > 1
    /\ ResourcesNow = <<OtherResource, ResourceEntry("sHero")>>
    /\ DocNow.MetaData = OldMetaData

(***************************************************************************)
(* strip_trailing_commas                                                   *)
(* The text is the sequence of its characters.                             *)
(***************************************************************************)
MaxJsonLen == 5

\* the characters the texts are made of: the quote, the backslash, the comma, a blank,
\* the two closing brackets and an ordinary character
JsonChars == { "\"", "\\", ",", " ", "}", "]", "a" }

\* char::is_whitespace, for the characters of the texts
IsWhitespace(c) == c \in {" ", "\n", "\t", "\r"}

\* gm_import.rs 338 with the backslash never starting an escape
StartsEscapeNever(c, in_string) == FALSE

\* gm_import.rs 338
StartsEscape(c, in_string) == c = "\\" /\ in_string

RECURSIVE SkipWhitespace(_, _)
\* gm_import.rs 354-357: the first position from j on that holds no whitespace
\* (positions are counted from 1, so chars.len() is the last of them)
SkipWhitespace(chars, j) ==
    IF j <= Len(chars) /\ IsWhitespace(chars[j]) THEN SkipWhitespace(chars, j + 1) ELSE j

\* gm_import.rs 352-358: the comma at i is outside a string and a closing bracket follows
IsTrailingComma(chars, i, in_string) ==
    /\ ~in_string /\ chars[i] = ","
    /\ LET j == SkipWhitespace(chars, i + 1)
       IN j <= Len(chars) /\ chars[j] \in {"]", "}"}

RECURSIVE StripFrom(_, _, _, _, _)
\* gm_import.rs 328-367: the loop, from position i on
StripFrom(chars, i, in_string, escape_next, res) ==
    IF i > Len(chars) THEN res
    ELSE LET c == chars[i]
         IN IF escape_next THEN StripFrom(chars, i + 1, in_string, FALSE, Append(res, c))
            ELSE IF StartsEscape(c, in_string)
                 THEN StripFrom(chars, i + 1, in_string, TRUE, Append(res, c))
            ELSE IF c = "\"" THEN StripFrom(chars, i + 1, ~in_string, FALSE, Append(res, c))
            ELSE IF IsTrailingComma(chars, i, in_string)
                 THEN StripFrom(chars, i + 1, in_string, FALSE, res)
            ELSE StripFrom(chars, i + 1, in_string, FALSE, Append(res, c))

\* gm_import.rs 321-370
strip_trailing_commas(text) == StripFrom(text, 1, FALSE, FALSE, << >>)

InitStrip ==
    /\ json \in Seqs(JsonChars, MaxJsonLen)
    /\ spc = "call" /\ result = << >>
    /\ IdleSplit /\ IdleOst /\ IdleLate
    /\ IdleInputs /\ IdleBBox /\ IdleGif /\ IdleNearest /\ IdleImport

\* gm_import.rs 321-370
StripReturn ==
    /\ spc = "call"
    /\ result' = strip_trailing_commas(json)
    /\ spc' = "returned"
    /\ UNCHANGED <<json, splitVars, ostVars, lateVars, inputVars, bboxVars, gifVars, nearVars,
                   importVars>>

NextStrip == StripReturn

SpecStrip == InitStrip /\ [][NextStrip]_vars

\* Where the string literals of a text are: the character at k is escaped when the
\* character before it is an unescaped backslash inside a string; a quote that is not
\* escaped opens or closes a string; the character at k is inside a string when an odd
\* number of such quotes precede it.
Escaped(text) ==
    LET e[k \in 1..Len(text)] ==
          IF k = 1 THEN FALSE
          ELSE /\ text[k - 1] = "\\" /\ ~e[k - 1]
               /\ Cardinality({j \in 1..(k - 2) : text[j] = "\"" /\ ~e[j]}) % 2 = 1
    IN e
InsideString(text, k) ==
    Cardinality({j \in 1..(k - 1) : text[j] = "\"" /\ ~Escaped(text)[j]}) % 2 = 1

\* the commas outside the string literals with only whitespace between them and the
\* next ']' or '}'
TrailingCommas(text) ==
    {i \in 1..Len(text) :
        /\ text[i] = "," /\ ~InsideString(text, i)
        /\ \E j \in (i + 1)..Len(text) :
              /\ text[j] \in {"]", "}"}
              /\ \A k \in (i + 1)..(j - 1) : IsWhitespace(text[k])}

RECURSIVE Without(_, _, _)
\* the characters of text from position i on whose position is not in drop, in order
Without(text, drop, i) ==
    IF i > Len(text) THEN << >>
    ELSE IF i \in drop THEN Without(text, drop, i + 1)
    ELSE <<text[i]>> \o Without(text, drop, i + 1)

\* C11: the text returned is the text given without its trailing commas (the commas
\* outside string literals that are followed, after optional whitespace, by ']' or
\* '}'); every other character, a comma inside a string included, is kept in order.
C11_StripsExactly ==
    spc = "returned" => result = Without(json, TrailingCommas(json), 1)

\* in ",",} the comma inside the string was kept and the one before '}' removed
C11_Witness ==
    /\ spc = "returned"
    /\ json = <<"\"", ",", "\"", ",", "}">>
    /\ result = <<"\"", ",", "\"", "}">>

\* C29: strip_trailing_commas is idempotent: applied to the text it returned it returns
\* that text again, i.e. the text returned has no comma outside a string literal that
\* is followed, after optional whitespace, by ']' or '}'.
C29_Idempotent ==
    spc = "returned" =>
        /\ strip_trailing_commas(result) = result
        /\ TrailingCommas(result) = {}

(***************************************************************************)
(* split_spritesheet                                                       *)
(***************************************************************************)
MaxSheetDim == 2
MaxFrameCount == 3

\* main.rs 322-465 as one call: the palette given to the encoder and the frames written
create_gif(fs) ==
    LET st0 == CollectFrames(fs, 1, [list |-> <<transparent_marker>>, map |-> << >>])
        st == Truncate([palette |-> Flatten(st0.list), list |-> st0.list, map |-> st0.map])
    IN [palette |-> st.palette,
        frames |-> [i \in 1..Len(fs) |-> EncodeFrame(fs[i], st.list, st.map)]]

\* main.rs 231: img.crop_imm(x, y, frame_width, frame_height), the rectangle inside the
\* sheet (216-217 make it so)
Crop(img, x, y, fw, fh) ==
    [w |-> fw, h |-> fh,
     px |-> [k \in 1..(fw * fh) |->
               img.px[(y + ((k - 1) \div fw)) * img.w + x + ((k - 1) % fw) + 1]]]

RECURSIVE ExtractFrames(_, _, _, _, _)
\* main.rs 216-237: the cells of the sheet in row order, cell c = row * frames_per_row +
\* col, until frame_count frames are taken
ExtractFrames(img, inf, c, frames_per_row, num_rows) ==
    IF c >= frames_per_row * num_rows \/ c >= inf.frame_count THEN << >>
    ELSE <<Crop(img, (c % frames_per_row) * inf.width, (c \div frames_per_row) * inf.height,
                inf.width, inf.height)>>
         \o ExtractFrames(img, inf, c + 1, frames_per_row, num_rows)

\* main.rs 250 written frames.len() >= 1
UsesGifFromOne(n) == n >= 1

\* main.rs 250: frames.len() > 1
UsesGif(n) == n > 1

\* main.rs 194-294: [ret, file, removed]: the result, the file written (None when none
\* was) and whether the spritesheet file was removed afterwards; img is None when the
\* spritesheet does not exist or cannot be loaded
split_spritesheet(img, inf) ==
    IF ~IsSome(img) THEN [ret |-> "Err", file |-> None, removed |-> FALSE]    \* 197-203
    ELSE LET sh == Unwrap(img)
             fs == ExtractFrames(sh, inf, 0, sh.w \div inf.width, sh.h \div inf.height)
         IN IF Len(fs) = 0 THEN [ret |-> "Err", file |-> None, removed |-> FALSE] \* 246-248
            ELSE IF UsesGif(Len(fs))
            THEN [ret |-> "Ok",                                               \* 250-254
                  file |-> Some([kind |-> "gif", gif |-> create_gif(fs)]),
                  removed |-> TRUE]
            ELSE [ret |-> "Ok",                                               \* 255-264
                  file |-> Some([kind |-> "png", image |-> fs[1]]),
                  removed |-> ~inf.sheet_is_output]                           \* 269-284

\* the pixels of the sheets: a transparent one and an opaque one
SheetPixels == { Transparent, <<255, 0, 0, 255>> }

\* the spritesheets: missing, or w x h pixels
Sheets ==
    {None} \cup
    UNION {{Some([w |-> w, h |-> h, px |-> px]) : px \in [1..(w * h) -> SheetPixels]} :
              w \in 1..MaxSheetDim, h \in 1..MaxSheetDim}

\* The export script reports the frame size (at least 1x1) and the frame count; the
\* spritesheet is the file the single-frame output is written to, or another one.
InitSplit ==
    /\ sheet \in Sheets
    /\ info \in [width : 1..MaxSheetDim, height : 1..MaxSheetDim,
                 frame_count : 0..MaxFrameCount, sheet_is_output : BOOLEAN]
    /\ tpc = "call" /\ output = << >>
    /\ IdleStrip /\ IdleOst /\ IdleLate
    /\ IdleInputs /\ IdleBBox /\ IdleGif /\ IdleNearest /\ IdleImport

\* main.rs 194-294, the call returns Ok(())
SplitOk ==
    /\ tpc = "call"
    /\ LET r == split_spritesheet(sheet, info)
       IN r.ret = "Ok" /\ output' = r
    /\ tpc' = "returned"
    /\ UNCHANGED <<sheet, info, stripVars, ostVars, lateVars, inputVars, bboxVars, gifVars,
                   nearVars, importVars>>

\* main.rs 198, 203, 247: the call returns Err
SplitErr ==
    /\ tpc = "call"
    /\ LET r == split_spritesheet(sheet, info)
       IN r.ret = "Err" /\ output' = r
    /\ tpc' = "returned"
    /\ UNCHANGED <<sheet, info, stripVars, ostVars, lateVars, inputVars, bboxVars, gifVars,
                   nearVars, importVars>>

NextSplit == SplitOk \/ SplitErr

SpecSplit == InitSplit /\ [][NextSplit]_vars

\* the number of frames extracted: the cells of the sheet, at most frame_count of them
Extracted ==
    LET cells == (Unwrap(sheet).w \div info.width) * (Unwrap(sheet).h \div info.height)
    IN IF cells < info.frame_count THEN cells ELSE info.frame_count

\* the pixel at (x, y) of the sheet
SheetAt(x, y) == Unwrap(sheet).px[y * Unwrap(sheet).w + x + 1]

\* C16: with more than one extracted frame the output is the indexed-colour animation,
\* one indexed frame for each; with exactly one it is a full-colour raster holding the
\* frame's RGBA values unchanged and no palette is built; with none the call returns
\* an error and writes nothing.
C16_FormByCount ==
    (tpc = "returned" /\ IsSome(sheet)) =>
        /\ Extracted > 1 =>
              /\ output.ret = "Ok" /\ IsSome(output.file)
              /\ Unwrap(output.file).kind = "gif"
              /\ Len(Unwrap(output.file).gif.frames) = Extracted
              /\ \A i \in 1..Extracted :
                    Len(Unwrap(output.file).gif.frames[i].indexed) = info.width * info.height
        /\ Extracted = 1 =>
              /\ output.ret = "Ok" /\ IsSome(output.file)
              /\ Unwrap(output.file).kind = "png"
              /\ DOMAIN Unwrap(output.file) = {"kind", "image"}
              /\ Unwrap(output.file).image.w = info.width
              /\ Unwrap(output.file).image.h = info.height
              /\ \A x \in 0..(info.width - 1), y \in 0..(info.height - 1) :
                    Unwrap(output.file).image.px[y * info.width + x + 1] = SheetAt(x, y)
        /\ Extracted = 0 => output.ret = "Err" /\ output.file = None

\* a sheet with room for two frames, of which one was asked for, gave a raster file of
\* an opaque and a transparent pixel
C16_Witness ==
    /\ tpc = "returned" /\ IsSome(sheet) /\ info.frame_count = 1
    /\ (Unwrap(sheet).w \div info.width) * (Unwrap(sheet).h \div info.height) >= 2
    /\ output.ret = "Ok" /\ Unwrap(output.file).kind = "png"
    /\ Unwrap(output.file).image.px = <<Transparent, <<255, 0, 0, 255>>>>

(***************************************************************************)
(* ost_export: export_as_game_music and trim_wav                           *)
(* A file name is a sequence of pieces: a word, a blank, or one of the     *)
(* literals the code looks for (".wav", "wav"), each kept as one piece.    *)
(***************************************************************************)
MaxSkip == 1

\* char::to_uppercase on the first character of a piece
Capitalized(piece) ==
    CASE piece = "song" -> "Song"
      [] piece = "my" -> "My"
      [] piece = "wav" -> "Wav"
      [] piece = "notes" -> "Notes"
      [] OTHER -> piece

RECURSIVE PascalFrom(_, _, _)
\* util.rs 2-5: split_whitespace, then every word with its first character in upper
\* case, the words joined; at_start says that the piece at k begins a word
PascalFrom(input, k, at_start) ==
    IF k > Len(input) THEN << >>
    ELSE IF input[k] = " " THEN PascalFrom(input, k + 1, TRUE)
    ELSE <<IF at_start THEN Capitalized(input[k]) ELSE input[k]>>
         \o PascalFrom(input, k + 1, FALSE)

\* util.rs 1-6
convert_to_pascal_case(input) == PascalFrom(input, 1, TRUE)

\* api.rs 43: input_path_filename.replace(".wav", "")
ReplaceWav(name) == SelectSeq(name, LAMBDA piece : piece # ".wav")

\* api.rs 43: "snd" + PascalCase + ".ogg"
OutputFilename(name) == <<"snd">> \o convert_to_pascal_case(ReplaceWav(name)) \o <<".ogg">>

\* api.rs 36: path.ends_with("wav") is Path::ends_with, which compares whole path
\* components: it holds when the last component, the file name, is "wav"
PathEndsWith(name, child) == name = <<child>>

\* operations.rs 26 with < for <=
trim_wavStrict(all_samples, skip_start, skip_end) ==
    LET total == Len(all_samples)
    IN IF total < skip_start + skip_end THEN [ok |-> FALSE, out |-> None]
       ELSE [ok |-> TRUE, out |-> Some(SubSeq(all_samples, skip_start + 1, total - skip_end))]

\* operations.rs 10-42 on the samples read: [ok, out]; no output file is made on Err
trim_wav(all_samples, skip_start, skip_end) ==
    LET total == Len(all_samples)
    IN IF total <= skip_start + skip_end THEN [ok |-> FALSE, out |-> None]
       ELSE [ok |-> TRUE, out |-> Some(SubSeq(all_samples, skip_start + 1, total - skip_end))]

RECURSIVE TrimAll(_, _, _, _, _)
\* api.rs 39-51: the loop over music_files (a sequence of names); out is the GameMusic
\* folder so far. The first trim_wav that fails ends the call.
TrimAll(files, music_files, k, opts, out) ==
    IF k > Len(music_files) THEN [ret |-> "Ok", out |-> out]
    ELSE LET name == music_files[k]
             t == trim_wav(files[name], opts.skip_start, opts.skip_end)
         IN IF ~t.ok THEN [ret |-> "Err", out |-> out]
            ELSE TrimAll(files, music_files, k + 1, opts,
                         [n \in DOMAIN out \cup {OutputFilename(name)} |->
                             IF n = OutputFilename(name) THEN Unwrap(t.out) ELSE out[n]])

\* the orders read_dir can list the names of S in
Orders(S) ==
    {q \in [1..Cardinality(S) -> S] : \A i, j \in 1..Cardinality(S) : q[i] = q[j] => i = j}

\* api.rs 26-54 with the files listed in the order listing: [ret, game_music]
export_as_game_music(music, old_game_music, opts, listing) ==
    IF ~IsSome(music) THEN [ret |-> "Err", game_music |-> old_game_music]       \* 27, 56-71
    ELSE IF IsSome(old_game_music)
    THEN [ret |-> "Err", game_music |-> old_game_music]                         \* 30: create_dir
    ELSE LET files == Unwrap(music)
             music_files == SelectSeq(listing, LAMBDA name : PathEndsWith(name, "wav"))
             r == TrimAll(files, music_files, 1, opts, << >>)
         IN [ret |-> r.ret, game_music |-> Some(r.out)]

\* the names of the files of the music folder: song.wav, "my song.wav", wav, notes
MusicNames ==
    { <<"song", ".wav">>, <<"my", " ", "song", ".wav">>, <<"wav">>, <<"notes">> }

\* the samples of a file
SampleLists == { <<1, 2, 3>>, <<7>> }

\* The project folder has a music folder or none; the music folder holds some of the
\* files and may already hold a GameMusic folder.
InitOst ==
    /\ music_folder \in
          {None} \cup UNION {{Some(f) : f \in [S -> SampleLists]} : S \in SUBSET MusicNames}
    /\ game_music \in {None, Some(<< >>)}
    /\ IsSome(game_music) => IsSome(music_folder)
    /\ options \in [skip_start : 0..MaxSkip, skip_end : 0..MaxSkip]
    /\ opc = "call" /\ oret = ""
    /\ IdleStrip /\ IdleSplit /\ IdleLate
    /\ IdleInputs /\ IdleBBox /\ IdleGif /\ IdleNearest /\ IdleImport

\* the orders read_dir can list the music folder in
Listings == Orders(IF IsSome(music_folder) THEN DOMAIN Unwrap(music_folder) ELSE {})

\* the call export_as_game_music(project_folder_path, options) on the folders as they are
ExportResult(listing) == export_as_game_music(music_folder, game_music, options, listing)

\* what the call leaves behind
ExportEffect(r) ==
    /\ game_music' = r.game_music
    /\ oret' = r.ret
    /\ opc' = "returned"
    /\ UNCHANGED <<options, music_folder, stripVars, splitVars, lateVars, inputVars, bboxVars,
                   gifVars,
                   nearVars, importVars>>

\* api.rs 26-54, the call returns Ok(())
ExportOk ==
    /\ opc = "call"
    /\ \E listing \in Listings :
         LET r == ExportResult(listing) IN r.ret = "Ok" /\ ExportEffect(r)

\* api.rs 27, 30, 51: the call returns Err
ExportErr ==
    /\ opc = "call"
    /\ \E listing \in Listings :
         LET r == ExportResult(listing) IN r.ret = "Err" /\ ExportEffect(r)

NextOst == ExportOk \/ ExportErr

SpecOst == InitOst /\ [][NextOst]_vars

\* the files name.wav of the music folder
WavFiles ==
    {name \in DOMAIN Unwrap(music_folder) : Len(name) >= 2 /\ name[Len(name)] = ".wav"}

\* C20: after export_as_game_music returns Ok, the GameMusic folder holds, for every
\* file name.wav of the music folder, the file snd<PascalCase(name)>.ogg, and as many
\* files as the music folder has .wav files.
C20_EveryWavExported ==
    (opc = "returned" /\ oret = "Ok") =>
        /\ \A name \in WavFiles : OutputFilename(name) \in DOMAIN Unwrap(game_music)
        /\ Cardinality(DOMAIN Unwrap(game_music)) = Cardinality(WavFiles)


\* ---------------------------------------------------------------------------------
\* trim_wav applied to a WAV file on its own
\* ---------------------------------------------------------------------------------

MaxSamples == 4
MaxTrimSecs == 2

\* operations.rs 17: the format of a WAV file (hound::WavSpec)
WavSpecs ==
    { [channels |-> c, sample_rate |-> 1, bits_per_sample |-> b] : c \in {1, 2}, b \in {8, 16} }

\* operations.rs 19, 22-23: the number of samples in secs seconds of the format
SkipSamples(secs, spec) == secs * (spec.sample_rate * spec.channels)

\* operations.rs 10-42 on the file at input_path (None when it cannot be opened), with
\* no file at output_path before the call: [ret, file]
TrimWavFile(input, trim_start_secs, trim_end_secs) ==
    IF ~IsSome(input) THEN [ret |-> "Err", file |-> None]                        \* 16
    ELSE LET spec == Unwrap(input).spec
             t == trim_wav(Unwrap(input).samples, SkipSamples(trim_start_secs, spec),
                           SkipSamples(trim_end_secs, spec))
         IN IF ~t.ok THEN [ret |-> "Err", file |-> None]                         \* 26-31
            ELSE [ret |-> "Ok",
                  file |-> Some([spec |-> spec, samples |-> Unwrap(t.out)])]     \* 35-41

\* the values of the samples
SampleValues == {-1, 0, 1}

InitTrim ==
    /\ wav_in \in {None} \cup
          { Some([spec |-> sp, samples |-> q]) :
                sp \in WavSpecs, q \in Seqs(SampleValues, MaxSamples) }
    /\ trim \in [trim_start_secs : 0..MaxTrimSecs, trim_end_secs : 0..MaxTrimSecs]
    /\ wpc = "call" /\ wav_out = << >>
    /\ IdleWatch /\ IdleStrip /\ IdleSplit /\ IdleOst
    /\ IdleInputs /\ IdleBBox /\ IdleGif /\ IdleNearest /\ IdleImport

\* the call trim_wav(input_path, output_path, trim_start_secs, trim_end_secs)
TrimResult == TrimWavFile(wav_in, trim.trim_start_secs, trim.trim_end_secs)

\* what the call leaves behind
TrimEffect(r) ==
    /\ wav_out' = r
    /\ wpc' = "returned"
    /\ UNCHANGED <<wav_in, trim, watchVars, stripVars, splitVars, ostVars, inputVars,
                   bboxVars, gifVars, nearVars, importVars>>

\* operations.rs 41: the call returns Ok(())
TrimOk == wpc = "call" /\ TrimResult.ret = "Ok" /\ TrimEffect(TrimResult)

\* operations.rs 16, 20, 27: the call returns Err
TrimErr == wpc = "call" /\ TrimResult.ret = "Err" /\ TrimEffect(TrimResult)

NextTrim == TrimOk \/ TrimErr

SpecTrim == InitTrim /\ [][NextTrim]_vars

\* the samples of the input, and the numbers of samples to drop at its two ends
InputSamples == Unwrap(wav_in).samples
SkipStart == SkipSamples(trim.trim_start_secs, Unwrap(wav_in).spec)
SkipEnd == SkipSamples(trim.trim_end_secs, Unwrap(wav_in).spec)

\* C21: trim_wav on a readable file of total samples returns Err and creates no output
\* file when total <= skip_start + skip_end; otherwise it returns Ok and the output file
\* holds exactly the samples input[skip_start .. total - skip_end), in order, in the
\* format of the input.
C21_TrimsOrFails ==
    (wpc = "returned" /\ IsSome(wav_in)) =>
        LET total == Len(InputSamples)
        IN IF total <= SkipStart + SkipEnd
           THEN wav_out.ret = "Err" /\ wav_out.file = None
           ELSE /\ wav_out.ret = "Ok" /\ IsSome(wav_out.file)
                /\ Unwrap(wav_out.file).spec = Unwrap(wav_in).spec
                /\ Unwrap(wav_out.file).samples =
                       [i \in 1..(total - SkipStart - SkipEnd) |-> InputSamples[SkipStart + i]]

\* a file trimmed at both ends, to two samples that differ
C21_Witness ==
    /\ wpc = "returned" /\ IsSome(wav_in)
    /\ wav_out.ret = "Ok" /\ SkipStart > 0 /\ SkipEnd > 0
    /\ Len(Unwrap(wav_out.file).samples) = 2
    /\ Unwrap(wav_out.file).samples[1] # Unwrap(wav_out.file).samples[2]
    /\ InputSamples[1] # Unwrap(wav_out.file).samples[1]


\* ---------------------------------------------------------------------------------
\* main: the watcher's channel and the event loop (main.rs 73-105, 117-192)
\* ---------------------------------------------------------------------------------

MaxEvents == 3

\* A path of an event: whether it is an existing .aseprite file (main.rs 91-92), whether
\* Aseprite exits with success on it (168), and for each spritesheet it exports whether
\* split_spritesheet returns Ok (186).
PathOther == [aseprite |-> FALSE, exit_ok |-> FALSE, infos |-> << >>]
PathFails == [aseprite |-> TRUE, exit_ok |-> FALSE, infos |-> << >>]
PathOne == [aseprite |-> TRUE, exit_ok |-> TRUE, infos |-> <<TRUE>>]
PathBadSheet == [aseprite |-> TRUE, exit_ok |-> TRUE, infos |-> <<FALSE, TRUE>>]

\* What the watcher sends: Ok(event) with a kind and paths, or Ok(Err(e)), kind "Error"
WatchEvents ==
    { [kind |-> "Remove", paths |-> <<PathOne>>],
      [kind |-> "Modify", paths |-> <<PathOther>>],
      [kind |-> "Modify", paths |-> <<PathFails>>],
      [kind |-> "Create", paths |-> <<PathOne>>],
      [kind |-> "Modify", paths |-> <<PathBadSheet, PathOne>>],
      [kind |-> "Error", paths |-> << >>] }

\* main.rs 74-83: the channel is empty and the loop is about to call recv
InitWatch ==
    /\ channel = << >> /\ sent = 0 /\ mpc = "recv" /\ event = << >> /\ runs = {}
    /\ handled = << >>
    /\ IdleTrim /\ IdleStrip /\ IdleSplit /\ IdleOst
    /\ IdleInputs /\ IdleBBox /\ IdleGif /\ IdleNearest /\ IdleImport

otherVars ==
    <<trimVars, stripVars, splitVars, ostVars, inputVars, bboxVars, gifVars, nearVars,
      importVars>>

\* main.rs 78: the watcher's thread sends an event at any time
Notify ==
    /\ sent < MaxEvents
    /\ \E e \in WatchEvents :
         channel' = Append(channel, [id |-> sent + 1, kind |-> e.kind, paths |-> e.paths])
    /\ sent' = sent + 1
    /\ UNCHANGED <<mpc, event, runs, handled, otherVars>>

\* main.rs 86-87: rx.recv() with no thread or task spawned
CanReceiveAnywhere(pc) == TRUE

\* main.rs 86-87: rx.recv() is called at the top of the loop only
CanReceive(pc) == pc = "recv"

\* main.rs 87-89: an event of kind Modify or Create is taken from the channel
RecvEvent ==
    /\ CanReceive(mpc) /\ channel # << >>
    /\ Head(channel).kind \in {"Modify", "Create"}
    /\ channel' = Tail(channel)
    /\ event' = [ev |-> Head(channel), p |-> 1, infos |-> << >>, errors |-> 0]
    /\ runs' = runs \cup {Head(channel).id}
    /\ mpc' = "path"
    /\ UNCHANGED <<sent, handled, otherVars>>

\* main.rs 87-89, 102: an event of another kind is dropped, a watch error is printed
RecvOther ==
    /\ CanReceive(mpc) /\ channel # << >>
    /\ Head(channel).kind \notin {"Modify", "Create"}
    /\ channel' = Tail(channel)
    /\ handled' = Append(handled, [id |-> Head(channel).id,
                                   errors |-> IF Head(channel).kind = "Error" THEN 1 ELSE 0])
    /\ UNCHANGED <<sent, mpc, event, runs, otherVars>>

\* main.rs 90-92: the next path of the event is not an existing .aseprite file
SkipPath ==
    /\ mpc = "path" /\ event.p <= Len(event.ev.paths)
    /\ ~event.ev.paths[event.p].aseprite
    /\ event' = [event EXCEPT !.p = @ + 1]
    /\ UNCHANGED <<channel, sent, mpc, runs, handled, otherVars>>

\* main.rs 90-94: the next path is an existing .aseprite file, export_tags is called
TakePath ==
    /\ mpc = "path" /\ event.p <= Len(event.ev.paths)
    /\ event.ev.paths[event.p].aseprite
    /\ mpc' = "export"
    /\ UNCHANGED <<channel, sent, event, runs, handled, otherVars>>

\* main.rs 90, 100-101: no path is left, the loop goes back to recv
EventDone ==
    /\ mpc = "path" /\ event.p > Len(event.ev.paths)
    /\ handled' = Append(handled, [id |-> event.ev.id, errors |-> event.errors])
    /\ runs' = runs \ {event.ev.id}
    /\ event' = << >>
    /\ mpc' = "recv"
    /\ UNCHANGED <<channel, sent, otherVars>>

\* main.rs 130-173, 94-96: Aseprite has run and failed, export_tags returns Err, which
\* is printed
ExportTagsErr ==
    /\ mpc = "export" /\ ~event.ev.paths[event.p].exit_ok
    /\ event' = [event EXCEPT !.p = @ + 1, !.errors = @ + 1]
    /\ mpc' = "path"
    /\ UNCHANGED <<channel, sent, runs, handled, otherVars>>

\* main.rs 130-182: Aseprite has run to its end and the export infos are parsed
ExportTagsRun ==
    /\ mpc = "export" /\ event.ev.paths[event.p].exit_ok
    /\ event' = [event EXCEPT !.infos = event.ev.paths[event.p].infos]
    /\ mpc' = "split"
    /\ UNCHANGED <<channel, sent, runs, handled, otherVars>>

\* main.rs 184-189: split_spritesheet on the next info, its Err printed
SplitNext ==
    /\ mpc = "split" /\ event.infos # << >>
    /\ event' = [event EXCEPT !.infos = Tail(@),
                              !.errors = @ + (IF Head(event.infos) THEN 0 ELSE 1)]
    /\ UNCHANGED <<channel, sent, mpc, runs, handled, otherVars>>

\* main.rs 184, 191: no info is left, export_tags returns Ok(())
ExportTagsOk ==
    /\ mpc = "split" /\ event.infos = << >>
    /\ event' = [event EXCEPT !.p = @ + 1]
    /\ mpc' = "path"
    /\ UNCHANGED <<channel, sent, runs, handled, otherVars>>

\* the steps of the loop of main
MainLoop ==
    \/ RecvEvent \/ RecvOther \/ SkipPath \/ TakePath \/ EventDone
    \/ ExportTagsErr \/ ExportTagsRun \/ SplitNext \/ ExportTagsOk

NextWatch == Notify \/ MainLoop

SpecWatch == InitWatch /\ [][NextWatch]_vars

\* The loop of main is the process's main thread: it takes its next step whenever it has
\* one, Command::output (main.rs 138) returning when Aseprite exits.
FairWatch == SpecWatch /\ WF_vars(MainLoop)

\* the ids of the events whose handling has ended
HandledIds == {handled[i].id : i \in 1..Len(handled)}

\* C22: the handling of one event runs to its end before the next event is taken from
\* the channel: at most one handling is in progress, one is in progress exactly when the
\* loop is not at recv, and an event leaves the channel only when none is; every event
\* sent is handled in the end, whatever errors the events before it gave.
C22_Sequential ==
    /\ [](Cardinality(runs) <= 1 /\ (runs = {} <=> mpc = "recv"))
    /\ [][Len(channel') < Len(channel) => runs = {}]_vars
    /\ \A k \in 1..MaxEvents : (sent >= k) ~> (k \in HandledIds)

\* an event that gave an error has been handled, a later one is being split, and another
\* waits in the channel
C22_Witness ==
    /\ Len(handled) >= 1 /\ handled[1].errors > 0
    /\ mpc = "split" /\ channel # << >>

====
